---- MODULE Spec2Model ----
(***************************************************************************)
(* Model of the risk-api bytecode analysis engine: RPC client with its LRU *)
(* caches, explorer (Basescan) lookups with their LRU caches, the          *)
(* disassembler, the seven detectors, the scorer and analyze_contract.     *)
(* Text is modelled as sequences of one-character strings, bytes as        *)
(* sequences of integers 0..255, names as sequences of string tokens.      *)
(***************************************************************************)
EXTENDS Integers, Sequences, FiniteSets, TLC

Min(a, b) == IF a <= b THEN a ELSE b

\* s * n on a Python sequence
Repeat(s, n) == [i \in 1..(n * Len(s)) |-> s[((i - 1) % Len(s)) + 1]]

\* Python None for Finding.offset
NoOffset == -1

(***************************************************************************)
(* Hex text                                                                *)
(***************************************************************************)
HexLower == <<"0", "1", "2", "3", "4", "5", "6", "7",
              "8", "9", "a", "b", "c", "d", "e", "f">>

HexUpper == <<"0", "1", "2", "3", "4", "5", "6", "7",
              "8", "9", "A", "B", "C", "D", "E", "F">>

IsHexChar(c) == \E i \in 1..16 : HexLower[i] = c \/ HexUpper[i] = c

HexValue(c) == (CHOOSE i \in 1..16 : HexLower[i] = c \/ HexUpper[i] = c) - 1

\* bytes.hex(): two lowercase digits per byte
BytesHex(b) ==
    [i \in 1..(2 * Len(b)) |->
        IF i % 2 = 1 THEN HexLower[(b[(i + 1) \div 2] \div 16) + 1]
                     ELSE HexLower[(b[i \div 2] % 16) + 1]]

\* bytes.fromhex() raises ValueError on an odd digit count or a non-hex digit
FromHexOk(h) == Len(h) % 2 = 0 /\ \A i \in 1..Len(h) : IsHexChar(h[i])

BytesFromHex(h) ==
    [i \in 1..(Len(h) \div 2) |-> 16 * HexValue(h[2 * i - 1]) + HexValue(h[2 * i])]

\* str.lower() on the characters that occur in addresses
LowerChar(c) ==
    IF \E i \in 11..16 : HexUpper[i] = c
    THEN HexLower[CHOOSE i \in 11..16 : HexUpper[i] = c]
    ELSE IF c = "X" THEN "x" ELSE c

Lower(s) == [i \in 1..Len(s) |-> LowerChar(s[i])]

Whitespace == {" ", "\n", "\t", "\r"}

\* str.strip()
RECURSIVE Strip(_)
Strip(s) ==
    IF s = <<>> THEN s
    ELSE IF s[1] \in Whitespace THEN Strip(Tail(s))
    ELSE IF s[Len(s)] \in Whitespace THEN Strip(SubSeq(s, 1, Len(s) - 1))
    ELSE s

\* s.startswith("0x")
StartsWith0x(s) == Len(s) >= 2 /\ s[1] = "0" /\ s[2] = "x"

\* s.startswith(("0x", "0X"))
StartsWith0xAnyCase(s) == Len(s) >= 2 /\ s[1] = "0" /\ s[2] \in {"x", "X"}

\* s[2:]
DropTwo(s) == SubSeq(s, 3, Len(s))

\* all(c == "0" for c in s)
AllZeroChars(s) == \A i \in 1..Len(s) : s[i] = "0"

\* decimal digits of a small positive number, as in f"PUSH{n}"
Decimal(n) ==
    IF n < 10 THEN <<HexLower[n + 1]>>
    ELSE <<HexLower[(n \div 10) + 1], HexLower[(n % 10) + 1]>>

(***************************************************************************)
(* Opcode table                                                            *)
(***************************************************************************)
FixedOpcodeNames ==
    0 :> <<"STOP">> @@ 1 :> <<"ADD">> @@ 2 :> <<"MUL">> @@ 3 :> <<"SUB">>
    @@ 4 :> <<"DIV">> @@ 5 :> <<"SDIV">> @@ 6 :> <<"MOD">> @@ 7 :> <<"SMOD">>
    @@ 8 :> <<"ADDMOD">> @@ 9 :> <<"MULMOD">> @@ 10 :> <<"EXP">> @@ 11 :> <<"SIGNEXTEND">>
    @@ 16 :> <<"LT">> @@ 17 :> <<"GT">> @@ 18 :> <<"SLT">> @@ 19 :> <<"SGT">>
    @@ 20 :> <<"EQ">> @@ 21 :> <<"ISZERO">> @@ 22 :> <<"AND">> @@ 23 :> <<"OR">>
    @@ 24 :> <<"XOR">> @@ 25 :> <<"NOT">> @@ 26 :> <<"BYTE">> @@ 27 :> <<"SHL">>
    @@ 28 :> <<"SHR">> @@ 29 :> <<"SAR">> @@ 32 :> <<"SHA3">> @@ 48 :> <<"ADDRESS">>
    @@ 49 :> <<"BALANCE">> @@ 50 :> <<"ORIGIN">> @@ 51 :> <<"CALLER">> @@ 52 :> <<"CALLVALUE">>
    @@ 53 :> <<"CALLDATALOAD">> @@ 54 :> <<"CALLDATASIZE">> @@ 55 :> <<"CALLDATACOPY">> @@ 56 :> <<"CODESIZE">>
    @@ 57 :> <<"CODECOPY">> @@ 58 :> <<"GASPRICE">> @@ 59 :> <<"EXTCODESIZE">> @@ 60 :> <<"EXTCODECOPY">>
    @@ 61 :> <<"RETURNDATASIZE">> @@ 62 :> <<"RETURNDATACOPY">> @@ 63 :> <<"EXTCODEHASH">> @@ 64 :> <<"BLOCKHASH">>
    @@ 65 :> <<"COINBASE">> @@ 66 :> <<"TIMESTAMP">> @@ 67 :> <<"NUMBER">> @@ 68 :> <<"PREVRANDAO">>
    @@ 69 :> <<"GASLIMIT">> @@ 70 :> <<"CHAINID">> @@ 71 :> <<"SELFBALANCE">> @@ 72 :> <<"BASEFEE">>
    @@ 73 :> <<"BLOBHASH">> @@ 74 :> <<"BLOBBASEFEE">> @@ 80 :> <<"POP">> @@ 81 :> <<"MLOAD">>
    @@ 82 :> <<"MSTORE">> @@ 83 :> <<"MSTORE8">> @@ 84 :> <<"SLOAD">> @@ 85 :> <<"SSTORE">>
    @@ 86 :> <<"JUMP">> @@ 87 :> <<"JUMPI">> @@ 88 :> <<"PC">> @@ 89 :> <<"MSIZE">>
    @@ 90 :> <<"GAS">> @@ 91 :> <<"JUMPDEST">> @@ 92 :> <<"TLOAD">> @@ 93 :> <<"TSTORE">>
    @@ 94 :> <<"MCOPY">> @@ 95 :> <<"PUSH0">> @@ 160 :> <<"LOG0">> @@ 161 :> <<"LOG1">>
    @@ 162 :> <<"LOG2">> @@ 163 :> <<"LOG3">> @@ 164 :> <<"LOG4">> @@ 240 :> <<"CREATE">>
    @@ 241 :> <<"CALL">> @@ 242 :> <<"CALLCODE">> @@ 243 :> <<"RETURN">> @@ 244 :> <<"DELEGATECALL">>
    @@ 245 :> <<"CREATE2">> @@ 250 :> <<"STATICCALL">> @@ 253 :> <<"REVERT">> @@ 254 :> <<"INVALID">>
    @@ 255 :> <<"SELFDESTRUCT">>

\* the table with the PUSH operand sizes counted from PUSH1 = 0
OPCODES_ZERO_BASED ==
    [b \in (DOMAIN FixedOpcodeNames) \cup (96..159) |->
        IF b \in 96..127 THEN [name |-> <<"PUSH">> \o Decimal(b - 95), operand_size |-> b - 96]
        ELSE IF b \in 128..143 THEN [name |-> <<"DUP">> \o Decimal(b - 127), operand_size |-> 0]
        ELSE IF b \in 144..159 THEN [name |-> <<"SWAP">> \o Decimal(b - 143), operand_size |-> 0]
        ELSE [name |-> FixedOpcodeNames[b], operand_size |-> 0]]

\* OPCODES: byte -> (name, operand_size); PUSH1..PUSH32 carry an operand
OPCODES ==
    [b \in (DOMAIN FixedOpcodeNames) \cup (96..159) |->
        IF b \in 96..127 THEN [name |-> <<"PUSH">> \o Decimal(b - 95), operand_size |-> b - 95]
        ELSE IF b \in 128..143 THEN [name |-> <<"DUP">> \o Decimal(b - 127), operand_size |-> 0]
        ELSE IF b \in 144..159 THEN [name |-> <<"SWAP">> \o Decimal(b - 143), operand_size |-> 0]
        ELSE [name |-> FixedOpcodeNames[b], operand_size |-> 0]]

lookup(opcode) ==
    IF opcode \in DOMAIN OPCODES THEN OPCODES[opcode]
    ELSE [name |-> <<"UNKNOWN_", HexUpper[(opcode \div 16) + 1], HexUpper[(opcode % 16) + 1]>>,
          operand_size |-> 0]

(***************************************************************************)
(* Disassembler                                                            *)
(***************************************************************************)
Instruction(offset, opcode, name, operand) ==
    [offset |-> offset, opcode |-> opcode, name |-> name, operand |-> operand]

\* the loop advancing past the opcode only, never past its operand
RECURSIVE DisassembleFromOpcodeOnly(_, _)
DisassembleFromOpcodeOnly(raw, i) ==
    IF i >= Len(raw) THEN <<>>
    ELSE LET opcode == raw[i + 1]
             op == lookup(opcode)
             available == Min(op.operand_size, Len(raw) - i - 1)
         IN  <<Instruction(i, opcode, op.name, SubSeq(raw, i + 2, i + 1 + available))>>
                 \o DisassembleFromOpcodeOnly(raw, i + 1)

\* the while loop of disassemble, from byte position i (0-based)
RECURSIVE DisassembleFrom(_, _)
DisassembleFrom(raw, i) ==
    IF i >= Len(raw) THEN <<>>
    ELSE LET opcode == raw[i + 1]
             op == lookup(opcode)
         IN  IF op.operand_size > 0
             THEN LET available == Min(op.operand_size, Len(raw) - i - 1)
                      operand == SubSeq(raw, i + 2, i + 1 + available)
                  IN  <<Instruction(i, opcode, op.name, operand)>>
                          \o DisassembleFrom(raw, i + 1 + op.operand_size)
             ELSE <<Instruction(i, opcode, op.name, <<>>)>>
                      \o DisassembleFrom(raw, i + 1)

\* the hex text disassemble hands to bytes.fromhex
DisassembleHexStr(bytecode_hex) ==
    LET hex_str == Strip(bytecode_hex)
    IN  IF StartsWith0xAnyCase(hex_str) THEN DropTwo(hex_str) ELSE hex_str

\* disassemble raises ValueError exactly when bytes.fromhex does
DisassembleRaises(bytecode_hex) ==
    LET hex_str == DisassembleHexStr(bytecode_hex)
    IN  hex_str # <<>> /\ ~FromHexOk(hex_str)

disassemble(bytecode_hex) ==
    LET hex_str == DisassembleHexStr(bytecode_hex)
    IN  IF hex_str = <<>> THEN <<>>
        ELSE DisassembleFrom(BytesFromHex(hex_str), 0)

(***************************************************************************)
(* Selector tables                                                         *)
(***************************************************************************)
MALICIOUS_SELECTORS ==
    <<64, 193, 15, 25>> :> "mint(address,uint256)"
    @@ <<160, 113, 45, 104>> :> "mint(uint256)"
    @@ <<68, 51, 126, 161>> :> "blacklist(address)"
    @@ <<68, 215, 95, 165>> :> "addToBlacklist(address)"
    @@ <<105, 254, 14, 45>> :> "setFee(uint256)"
    @@ <<192, 176, 253, 162>> :> "setTaxFee(uint256)"
    @@ <<236, 40, 67, 138>> :> "setMaxTxAmount(uint256)"
    @@ <<182, 197, 35, 36>> :> "setMaxWalletSize(uint256)"
    @@ <<132, 86, 203, 89>> :> "pause()"

SUSPICIOUS_SELECTORS ==
    <<162, 44, 180, 101>> :> "setApprovalForAll(address,bool)"
    @@ <<113, 80, 24, 166>> :> "renounceOwnership()"
    @@ <<242, 253, 227, 139>> :> "transferOwnership(address)"
    @@ <<60, 207, 214, 11>> :> "withdraw()"
    @@ <<224, 26, 249, 44>> :> "setSwapEnabled(bool)"
    @@ <<67, 120, 35, 236>> :> "excludeFromFee(address)"

\* the signatures v of MALICIOUS_SELECTORS with "mint" in v.lower()
MintSignatures == {"mint(address,uint256)", "mint(uint256)"}

\* the signatures v with "fee", "tax", "maxtx" or "maxwallet" in v.lower()
FeeSignatures ==
    {"setFee(uint256)", "setTaxFee(uint256)", "setMaxTxAmount(uint256)",
     "setMaxWalletSize(uint256)"}

PUSH4 == <<"PUSH", "4">>

PUSH32 == <<"PUSH", "3", "2">>

extract_selectors(instructions) ==
    {instructions[i].operand : i \in
        {k \in 1..Len(instructions) :
            instructions[k].name = PUSH4 /\ Len(instructions[k].operand) = 4}}

find_malicious_selectors(selectors) ==
    [s \in selectors \cap DOMAIN MALICIOUS_SELECTORS |-> MALICIOUS_SELECTORS[s]]

find_suspicious_selectors(selectors) ==
    [s \in selectors \cap DOMAIN SUSPICIOUS_SELECTORS |-> SUSPICIOUS_SELECTORS[s]]

(***************************************************************************)
(* Detectors                                                               *)
(***************************************************************************)
EIP_1967_IMPL_SLOT ==
    <<54, 8, 148, 161, 59, 161, 163, 33, 6, 103, 200, 40, 73, 45, 185, 141,
      202, 62, 32, 118, 204, 55, 53, 169, 32, 163, 202, 80, 93, 56, 43, 188>>

EIP_1967_ADMIN_SLOT ==
    <<181, 49, 39, 104, 74, 86, 139, 49, 115, 174, 19, 185, 248, 166, 1, 110,
      36, 62, 99, 182, 232, 238, 17, 120, 214, 167, 23, 133, 11, 93, 97, 3>>

EIP_1822_SLOT ==
    <<197, 241, 111, 15, 204, 99, 159, 164, 138, 105, 71, 131, 109, 152, 80, 245,
      4, 121, 133, 35, 191, 140, 154, 58, 135, 213, 135, 108, 246, 34, 188, 247>>

OZ_IMPL_SLOT ==
    <<112, 80, 201, 224, 244, 202, 118, 156, 105, 189, 58, 142, 247, 64, 188, 55,
      147, 79, 142, 44, 3, 110, 90, 114, 63, 216, 238, 4, 142, 211, 248, 195>>

OZ_ADMIN_SLOT ==
    <<16, 214, 165, 74, 71, 84, 200, 134, 157, 104, 134, 181, 245, 215, 251, 250,
      91, 69, 34, 35, 126, 165, 198, 13, 17, 188, 78, 122, 31, 249, 57, 11>>

PROXY_SLOTS ==
    {EIP_1967_IMPL_SLOT, EIP_1967_ADMIN_SLOT, EIP_1822_SLOT, OZ_IMPL_SLOT, OZ_ADMIN_SLOT}

\* Finding(detector, severity, title, description, points, offset); the
\* description is kept as the tuple of the values interpolated into it
Finding(detector, severity, title, description, points, offset) ==
    [detector |-> detector, severity |-> severity, title |-> title,
     description |-> description, points |-> points, offset |-> offset]

\* indices (1-based) of the instructions with the given opcode
OpcodeIndices(instructions, opcode) ==
    {k \in 1..Len(instructions) : instructions[k].opcode = opcode}

SetMin(S) == CHOOSE x \in S : \A y \in S : x <= y

_has_proxy_slots(instructions) ==
    \E k \in 1..Len(instructions) :
        instructions[k].name = PUSH32 /\ instructions[k].operand \in PROXY_SLOTS

detect_selfdestruct(instructions) ==
    LET hits == OpcodeIndices(instructions, 255)
    IN  IF hits = {} THEN <<>>
        ELSE <<Finding(<<"selfdestruct">>, "critical", "SELFDESTRUCT opcode found",
                       <<>>, 30, instructions[SetMin(hits)].offset)>>

\* detect_delegatecall without the downgrade in a proxy context
detect_delegatecall_raw(instructions) ==
    LET hits == OpcodeIndices(instructions, 244)
    IN  IF hits = {} THEN <<>>
        ELSE <<Finding(<<"delegatecall">>, "high",
                       "Raw DELEGATECALL without proxy pattern",
                       <<>>, 15, instructions[SetMin(hits)].offset)>>

detect_delegatecall(instructions) ==
    LET hits == OpcodeIndices(instructions, 244)
        is_proxy == _has_proxy_slots(instructions)
    IN  IF hits = {} THEN <<>>
        ELSE IF is_proxy
             THEN <<Finding(<<"delegatecall">>, "info", "DELEGATECALL in proxy pattern",
                            <<>>, 10, instructions[SetMin(hits)].offset)>>
             ELSE <<Finding(<<"delegatecall">>, "high",
                            "Raw DELEGATECALL without proxy pattern",
                            <<>>, 15, instructions[SetMin(hits)].offset)>>

\* the look-ahead measured in bytes: the SSTOREs at most 20 bytes behind
\* the CALL
ReentrancyStoresByBytes(instructions, i) ==
    {j \in (i + 1)..(Len(instructions) - 1) :
        /\ instructions[j + 1].opcode = 85
        /\ instructions[j + 1].offset - instructions[i + 1].offset <= 20}

\* the SSTORE indices j with i < j < min(i + 21, len), for a CALL at index i
\* (0-based i and j, as in the source)
ReentrancyStores(instructions, i) ==
    {j \in (i + 1)..(Min(i + 21, Len(instructions)) - 1) :
        instructions[j + 1].opcode = 85}

detect_reentrancy_risk(instructions) ==
    LET calls == {i \in 0..(Len(instructions) - 1) :
                     instructions[i + 1].opcode = 241
                     /\ ReentrancyStores(instructions, i) # {}}
    IN  IF calls = {} THEN <<>>
        ELSE LET i == SetMin(calls)
                 j == SetMin(ReentrancyStores(instructions, i))
             IN  <<Finding(<<"reentrancy">>, "medium",
                           "Potential reentrancy: CALL before SSTORE",
                           <<instructions[i + 1].offset, instructions[j + 1].offset>>,
                           10, instructions[i + 1].offset)>>

detect_proxy_patterns(instructions) ==
    IF _has_proxy_slots(instructions)
    THEN <<Finding(<<"proxy">>, "info", "Proxy contract detected", <<>>, 10, NoOffset)>>
    ELSE <<>>

\* transfer_sels without transferFrom
TransferSelectorsTransferOnly == {<<169, 5, 156, 187>>}

TransferSelectors == {<<169, 5, 156, 187>>, <<35, 184, 114, 221>>}

ComparisonOps == {16, 17, 18, 19, 20}

\* the look-ahead stopping one instruction earlier: range(i + 2, min(i + 5, len))
HoneypotMatchThree(instructions, i) ==
    /\ instructions[i + 1].opcode \in ComparisonOps
    /\ i + 2 < Len(instructions)
    /\ instructions[i + 2].opcode = 87
    /\ \E j \in (i + 2)..(Min(i + 5, Len(instructions)) - 1) :
           instructions[j + 1].opcode = 253

\* the comparison at 0-based index i leads to JUMPI and a REVERT at some
\* j in range(i + 2, min(i + 6, len))
HoneypotMatch(instructions, i) ==
    /\ instructions[i + 1].opcode \in ComparisonOps
    /\ i + 2 < Len(instructions)
    /\ instructions[i + 2].opcode = 87
    /\ \E j \in (i + 2)..(Min(i + 6, Len(instructions)) - 1) :
           instructions[j + 1].opcode = 253

detect_honeypot_patterns(instructions) ==
    LET selectors == extract_selectors(instructions)
        has_transfer == selectors \cap TransferSelectors # {}
        matches == {i \in 0..(Len(instructions) - 1) : HoneypotMatch(instructions, i)}
    IN  IF ~has_transfer \/ matches = {} THEN <<>>
        ELSE <<Finding(<<"honeypot">>, "high",
                       "Potential honeypot: conditional REVERT in transfer path",
                       <<>>, 25, instructions[SetMin(matches) + 1].offset)>>

detect_hidden_mint(instructions) ==
    LET malicious == find_malicious_selectors(extract_selectors(instructions))
        mint_selectors == {k \in DOMAIN malicious : malicious[k] \in MintSignatures}
    IN  IF mint_selectors = {} THEN <<>>
        ELSE <<Finding(<<"hidden_mint">>, "critical", "Hidden mint capability detected",
                       {malicious[k] : k \in mint_selectors}, 25, NoOffset)>>

detect_fee_manipulation(instructions) ==
    LET malicious == find_malicious_selectors(extract_selectors(instructions))
        fee_selectors == {k \in DOMAIN malicious : malicious[k] \in FeeSignatures}
    IN  IF fee_selectors = {} THEN <<>>
        ELSE <<Finding(<<"fee_manipulation">>, "high",
                       "Fee/limit manipulation functions detected",
                       {malicious[k] : k \in fee_selectors}, 15, NoOffset)>>

run_all_detectors(instructions) ==
    detect_selfdestruct(instructions)
        \o detect_delegatecall(instructions)
        \o detect_reentrancy_risk(instructions)
        \o detect_proxy_patterns(instructions)
        \o detect_honeypot_patterns(instructions)
        \o detect_hidden_mint(instructions)
        \o detect_fee_manipulation(instructions)

(***************************************************************************)
(* Scorer                                                                  *)
(***************************************************************************)
CATEGORY_CAPS ==
    <<"selfdestruct">> :> 30
    @@ <<"hidden_mint">> :> 25
    @@ <<"honeypot">> :> 25
    @@ <<"fee_manipulation">> :> 15
    @@ <<"delegatecall">> :> 15
    @@ <<"proxy">> :> 10
    @@ <<"reentrancy">> :> 10
    @@ <<"suspicious_selector">> :> 15
    @@ <<"tiny_bytecode">> :> 10
    @@ <<"deployer_reputation">> :> 10

SUSPICIOUS_SELECTOR_POINTS == 5

\* every category capped at the fallback cap
CapOfFallback(cat) == 100

\* CATEGORY_CAPS.get(cat, 100)
CapOf(cat) == IF cat \in DOMAIN CATEGORY_CAPS THEN CATEGORY_CAPS[cat] ELSE 100

\* d[k] = v on a dict
DictSet(d, k, v) == [x \in (DOMAIN d) \cup {k} |-> IF x = k THEN v ELSE d[x]]

\* sum(d.values())
RECURSIVE SumValues(_)
SumValues(d) ==
    IF DOMAIN d = {} THEN 0
    ELSE LET k == CHOOSE x \in DOMAIN d : TRUE
         IN  d[k] + SumValues([x \in (DOMAIN d) \ {k} |-> d[x]])

EmptyDict == [x \in {} |-> 0]

\* the accumulation loop letting the last finding of a category replace the
\* points of the earlier ones
RECURSIVE AccumulateLastWins(_, _)
AccumulateLastWins(category_points, findings) ==
    IF findings = <<>> THEN category_points
    ELSE LET finding == Head(findings)
             cat == finding.detector
             cap == CapOf(cat)
         IN  AccumulateLastWins(
                 DictSet(category_points, cat, Min(cap, finding.points)),
                 Tail(findings))

\* the accumulation loop shared by compute_score and _analyze_implementation
RECURSIVE AccumulateCategoryPoints(_, _)
AccumulateCategoryPoints(category_points, findings) ==
    IF findings = <<>> THEN category_points
    ELSE LET finding == Head(findings)
             cat == finding.detector
             current == IF cat \in DOMAIN category_points THEN category_points[cat] ELSE 0
             cap == CapOf(cat)
         IN  AccumulateCategoryPoints(
                 DictSet(category_points, cat, Min(cap, current + finding.points)),
                 Tail(findings))

\* _score_to_level with strict comparisons
_score_to_level_strict(score) ==
    IF score < 15 THEN "safe"
    ELSE IF score < 35 THEN "low"
    ELSE IF score < 55 THEN "medium"
    ELSE IF score < 75 THEN "high"
    ELSE "critical"

_score_to_level(score) ==
    IF score <= 15 THEN "safe"
    ELSE IF score <= 35 THEN "low"
    ELSE IF score <= 55 THEN "medium"
    ELSE IF score <= 75 THEN "high"
    ELSE "critical"

\* total = min(100, sum(category_points.values()))
SaturatedTotal(category_points) == Min(100, SumValues(category_points))

\* compute_score with the tiny-bytecode heuristic blind to the proxy category
compute_score_proxy_blind(findings, instructions, bytecode_hex) ==
    LET accumulated == AccumulateCategoryPoints(EmptyDict, findings)
        suspicious == find_suspicious_selectors(extract_selectors(instructions))
        n_suspicious == Cardinality(DOMAIN suspicious)
        with_suspicious ==
            IF n_suspicious > 0
            THEN DictSet(accumulated, <<"suspicious_selector">>,
                         Min(n_suspicious * SUSPICIOUS_SELECTOR_POINTS,
                             CATEGORY_CAPS[<<"suspicious_selector">>]))
            ELSE accumulated
        stripped == Strip(bytecode_hex)
        hex_str == IF StartsWith0xAnyCase(stripped) THEN DropTwo(stripped) ELSE stripped
        bytecode_len == Len(hex_str) \div 2
        is_proxy == <<"proxy">> \in DOMAIN with_suspicious
        category_points ==
            IF bytecode_len < 200 /\ bytecode_len > 0
            THEN DictSet(with_suspicious, <<"tiny_bytecode">>,
                         CATEGORY_CAPS[<<"tiny_bytecode">>])
            ELSE with_suspicious
        total == SaturatedTotal(category_points)
    IN  [score |-> total, level |-> _score_to_level(total),
         category_scores |-> category_points]

compute_score(findings, instructions, bytecode_hex) ==
    LET accumulated == AccumulateCategoryPoints(EmptyDict, findings)
        suspicious == find_suspicious_selectors(extract_selectors(instructions))
        n_suspicious == Cardinality(DOMAIN suspicious)
        with_suspicious ==
            IF n_suspicious > 0
            THEN DictSet(accumulated, <<"suspicious_selector">>,
                         Min(n_suspicious * SUSPICIOUS_SELECTOR_POINTS,
                             CATEGORY_CAPS[<<"suspicious_selector">>]))
            ELSE accumulated
        stripped == Strip(bytecode_hex)
        hex_str == IF StartsWith0xAnyCase(stripped) THEN DropTwo(stripped) ELSE stripped
        bytecode_len == Len(hex_str) \div 2
        is_proxy == <<"proxy">> \in DOMAIN with_suspicious
        category_points ==
            IF bytecode_len < 200 /\ ~is_proxy /\ bytecode_len > 0
            THEN DictSet(with_suspicious, <<"tiny_bytecode">>,
                         CATEGORY_CAPS[<<"tiny_bytecode">>])
            ELSE with_suspicious
        total == SaturatedTotal(category_points)
    IN  [score |-> total, level |-> _score_to_level(total),
         category_scores |-> category_points]

(***************************************************************************)
(* Bounds of the model                                                     *)
(***************************************************************************)
\* analyze_contract calls per behaviour
MaxCalls == 2

\* events between calls (a day passing, a cache clear) per behaviour
MaxEvents == 1

\* failed requests (RPC or explorer) per behaviour
MaxFaults == 3

\* the clock at the start, in Unix seconds
StartTime == 1700000000

\* bytes of the byte strings handed to disassemble directly
MaxCodeLen == 3

\* findings handed to compute_score directly
MaxFindings == 4

\* instructions after the selector in the code handed to
\* detect_honeypot_patterns directly
MaxPatternLen == 7

\* instructions between the CALL and the SSTORE in the code handed to
\* detect_reentrancy_risk directly
MaxGap == 20

SecondsPerDay == 86400

YOUNG_WALLET_DAYS == 7

LOW_TX_COUNT == 5

(***************************************************************************)
(* Option values: None is <<>>, a value v is <<v>>                         *)
(***************************************************************************)
None == <<>>

Some(v) == <<v>>

(***************************************************************************)
(* The chain and the explorer: what the outside world answers              *)
(***************************************************************************)
Prefix0x == <<"0", "x">>

HexText(bytes) == Prefix0x \o BytesHex(bytes)

RPC_URL == "https://mainnet.base.org"

ApiKeys == {"", "test-api-key"}

\* the requested account, written in lower and in upper case
AccountLower == Prefix0x \o Repeat(<<"a", "b">>, 20)

AccountUpper == Prefix0x \o Repeat(<<"A", "B">>, 20)

RequestAddresses == {AccountLower, AccountUpper}

\* a request to /analyze: the address query parameter ("" when absent), the
\* address of a JSON body as str() renders it (None without such a body) and
\* what the payment library makes of the payment headers
Request(method, query, json, payment) ==
    [method |-> method, query |-> query, json |-> json, payment |-> payment]

NoRequest == Request("", <<>>, None, "")

\* requests with an address of the right shape: in the query, and in a JSON
\* body with white space around it
WellFormedRequests(payment) ==
    {Request("GET", AccountLower, None, payment),
     Request("POST", <<>>, Some(<<" ">> \o AccountUpper \o <<"\n">>), payment)}

\* no address, too short, no 0x prefix, no hex digits, one digit too many
MalformedRequests(payment) ==
    {Request("GET", <<>>, None, payment),
     Request("GET", <<"0", "x", "1", "2", "3", "4">>, None, payment),
     Request("GET", Repeat(<<"a", "b">>, 20), None, payment),
     Request("POST", <<>>, Some(Prefix0x \o Repeat(<<"z">>, 40)), payment),
     Request("GET", AccountLower \o <<"a">>, None, payment)}

\* requests the payment gate turns away
UnpaidRequests ==
    {Request("GET", AccountLower, None, "payment-error"),
     Request("GET", <<"0", "x", "1", "2", "3", "4">>, None, "payment-error")}

Requests(enable_x402) ==
    IF enable_x402
    THEN WellFormedRequests("payment-verified") \cup MalformedRequests("payment-verified")
             \cup UnpaidRequests
    ELSE WellFormedRequests("") \cup MalformedRequests("")

ImplAccount == Prefix0x \o Repeat(<<"a">>, 40)

OtherAccount == Prefix0x \o Repeat(<<"b">>, 40)

Deployer == Prefix0x \o Repeat(<<"c", "d">>, 20)

_ZERO_WORD == Repeat(<<"0">>, 64)

ZeroWord == Prefix0x \o _ZERO_WORD

\* a 32-byte word holding an address right-aligned
AddressWord(account) == Prefix0x \o Repeat(<<"0">>, 24) \o DropTwo(account)

\* a non-zero word whose low 20 bytes are zero
HighOnlyWord == Prefix0x \o <<"1">> \o Repeat(<<"0">>, 63)

\* bytecodes deployed in the modelled chains
CleanCode == Repeat(<<127>> \o Repeat(<<0>>, 32), 6) \o <<96, 128, 96, 64, 82>>

ProxyCode == <<127>> \o EIP_1967_IMPL_SLOT \o <<244>>

\* every detector fires and three suspicious selectors are present
RiskyCode ==
    <<99, 169, 5, 156, 187, 20, 87, 253,
      99, 64, 193, 15, 25, 99, 105, 254, 14, 45,
      241, 85, 244, 255,
      99, 162, 44, 180, 101, 99, 113, 80, 24, 166, 99, 242, 253, 227, 139>>

EmptyHex == Prefix0x

\* hex text with an odd number of digits
OddHex == <<"0", "x", "f", "f", "f">>

MainCodes == {EmptyHex, OddHex, HexText(CleanCode), HexText(RiskyCode), HexText(ProxyCode)}

ImplCodes == {EmptyHex, OddHex, HexText(RiskyCode), HexText(ProxyCode)}

\* contents of the three implementation slots, in the order of _IMPL_SLOTS
SlotContents ==
    {<<ZeroWord, ZeroWord, ZeroWord>>,
     <<AddressWord(ImplAccount), AddressWord(OtherAccount), ZeroWord>>,
     <<ZeroWord, AddressWord(ImplAccount), ZeroWord>>,
     <<HighOnlyWord, ZeroWord, AddressWord(ImplAccount)>>}

\* what the explorer knows about the deployer of the requested account
CreatorUnknown == [creator |-> None, first_ts |-> None, tx_count |-> None]

\* a deployer whose first transaction is a little over six days old
FreshDeployer ==
    [creator |-> Some(Deployer), first_ts |-> Some(StartTime - 6 * SecondsPerDay - 100),
     tx_count |-> Some(2)]

SeasonedDeployer ==
    [creator |-> Some(Deployer), first_ts |-> Some(StartTime - 400 * SecondsPerDay),
     tx_count |-> Some(26)]

ExplorerFacts == {CreatorUnknown, FreshDeployer, SeasonedDeployer}

\* the upstream service whose requests may fail during a behaviour
Upstreams == {"rpc", "explorer"}

\* the modelled worlds: every plain contract with every deployer history,
\* every proxy layout with a fresh deployer; an account without code has no
\* creator; parts that are never read are fixed
Chains ==
    {c \in [code : MainCodes, slots : SlotContents, impl_code : ImplCodes,
            explorer : ExplorerFacts, flaky : Upstreams] :
        /\ c.code # HexText(ProxyCode) =>
               c.slots = <<ZeroWord, ZeroWord, ZeroWord>> /\ c.impl_code = EmptyHex
        /\ c.code = HexText(ProxyCode) => c.explorer = FreshDeployer
        /\ c.code = EmptyHex => c.explorer = CreatorUnknown
        /\ c.slots = <<ZeroWord, ZeroWord, ZeroWord>> => c.impl_code = EmptyHex}

\* Config.base_rpc_url and Config.basescan_api_key of the running app
\* create_app(config, enable_x402): the test client runs without explorer key
\* and payment middleware, the deployment with both
Configs ==
    {[base_rpc_url |-> RPC_URL, basescan_api_key |-> k, enable_x402 |-> k # ""] :
        k \in ApiKeys}

\* the proxy whose analysis needs every request: third slot, risky implementation
DeepProxyChain ==
    [code |-> HexText(ProxyCode),
     slots |-> <<HighOnlyWord, ZeroWord, AddressWord(ImplAccount)>>,
     impl_code |-> HexText(RiskyCode), explorer |-> FreshDeployer,
     flaky |-> "explorer"]

\* no contract at the address and no upstream that fails
QuietChain ==
    [code |-> EmptyHex, slots |-> <<ZeroWord, ZeroWord, ZeroWord>>,
     impl_code |-> EmptyHex, explorer |-> CreatorUnknown, flaky |-> "explorer"]

\* the worlds a behaviour starts in: without an API key the explorer is never
\* asked, so its facts are fixed and only the node can fail; with a key, the
\* plain contracts with every deployer history and either upstream failing,
\* the unresolvable proxy and the deep proxy with the explorer failing (the
\* node fails under a proxy in the worlds without a key)
Worlds ==
    {w \in [chain : Chains, config : Configs] :
        /\ w.config.basescan_api_key = "" =>
               /\ w.chain.explorer \in {FreshDeployer, CreatorUnknown}
               /\ w.chain.code # EmptyHex => w.chain.explorer = FreshDeployer
               /\ w.chain.flaky = "rpc" \/ w.chain = QuietChain
        /\ w.config.basescan_api_key # "" /\ w.chain.code = HexText(ProxyCode) =>
               /\ w.chain.flaky = "explorer"
               /\ \/ w.chain = DeepProxyChain
                  \/ w.chain.slots = <<ZeroWord, ZeroWord, ZeroWord>>}

\* eth_getCode answered by the node
ChainCode(c, address) ==
    IF Lower(address) = AccountLower THEN c.code
    ELSE IF Lower(address) = ImplAccount THEN c.impl_code
    ELSE EmptyHex

\* eth_getStorageAt answered by the node; the admin slots hold the admin
ChainStorage(c, address, slot_hex) ==
    IF Lower(address) # AccountLower THEN ZeroWord
    ELSE IF slot_hex = HexText(EIP_1967_IMPL_SLOT) THEN c.slots[1]
    ELSE IF slot_hex = HexText(EIP_1822_SLOT) THEN c.slots[2]
    ELSE IF slot_hex = HexText(OZ_IMPL_SLOT) THEN c.slots[3]
    ELSE IF slot_hex \in {HexText(EIP_1967_ADMIN_SLOT), HexText(OZ_ADMIN_SLOT)}
         THEN AddressWord(OtherAccount)
    ELSE ZeroWord

\* ways an RPC request fails; every one raises RPCError
RpcFaults == {"network", "http_status", "invalid_json", "rpc_error", "null_result"}

\* ways an explorer request fails and the lookup returns None
ExplorerFaults == {"network", "http_status", "not_json", "rate_limited"}

(***************************************************************************)
(* State                                                                   *)
(***************************************************************************)
VARIABLES
    chain,            \* what the node and the explorer know (fixed)
    config,           \* the app configuration (fixed)
    now,              \* time.time()
    code_cache,       \* lru_cache of get_code: (address, rpc_url) -> hex text
    storage_cache,    \* lru_cache of get_storage_at: (address, slot, rpc_url) -> word
    creator_cache,    \* lru_cache of get_contract_creator: (address, api_key) -> option
    first_tx_cache,   \* lru_cache of get_first_tx_timestamp: (deployer, api_key) -> option
    tx_count_cache,   \* lru_cache of get_tx_count: (deployer, api_key) -> option
    pc,               \* position of the analyze_contract call in flight, or "idle"
    args,             \* arguments of the call in flight (or of the last call)
    frame,            \* local variables of analyze_contract
    trace,            \* the I/O functions the call invoked, in order
    outcome,          \* how the last call ended: returned result or raised error
    completed,        \* calls that returned since the caches were last cleared
    ncalls,
    nevents,
    nfaults,
    unit,             \* a function called directly: function, input, output
    http,             \* the last request to /analyze, the status it was rejected
                      \* with, the status of its response (0 while there is
                      \* none) and what became of the settlement of its payment
    history           \* per cached function, the keys it returned a value for since
                      \* its cache was last cleared, least recently used first

vars ==
    <<chain, config, now, code_cache, storage_cache, creator_cache, first_tx_cache,
      tx_count_cache, pc, args, frame, trace, outcome, completed, ncalls,
      nevents, nfaults, unit, history, http>>

world == <<chain, config>>

caches ==
    <<code_cache, storage_cache, creator_cache, first_tx_cache, tx_count_cache, history>>

rpc_caches == <<code_cache, storage_cache, history>>

reputation_caches == <<creator_cache, first_tx_cache, tx_count_cache>>

counters == <<ncalls, nevents>>

\* analyze_contract has ended and the route has not answered yet
ResponsePending == pc = "idle" /\ http.request.method # "" /\ http.response = 0

BetweenCalls == pc = "idle" /\ ncalls >= 1 /\ ncalls < MaxCalls /\ ~ResponsePending

\* functools.lru_cache(maxsize=256)
maxsize == 256

\* an lru_cache: its entries, least recently used first
EmptyCache == <<>>

CacheKeys(cache) == {cache[i].key : i \in 1..Len(cache)}

CacheGet(cache, key) == cache[CHOOSE i \in 1..Len(cache) : cache[i].key = key].value

NoHistory ==
    [code |-> <<>>, storage |-> <<>>, creator |-> <<>>, first_tx |-> <<>>, tx_count |-> <<>>]

InitFrame ==
    [bytecode_hex |-> <<>>, bytecode_size |-> 0, findings |-> <<>>,
     deployer |-> None, score_result |-> None, is_proxy |-> FALSE,
     slot_index |-> 0, impl_address |-> None, impl_detected |-> <<>>,
     impl_result |-> None]

NoOutcome == [kind |-> "none", error |-> "", at |-> "", result |-> None]

Raised(error, at) == [kind |-> "raised", error |-> error, at |-> at, result |-> None]

Returned(result) == [kind |-> "returned", error |-> "", at |-> "", result |-> Some(result)]

\* one invocation of an I/O function: sent tells whether an HTTP request
\* left the process (cache miss), failed whether the request failed, error
\* the exception the failure stands for ("" when it yields None), value
\* what the function returned
Invocation(fn, address, slot, o) ==
    [fn |-> fn, address |-> address, slot |-> slot, sent |-> o.sent,
     failed |-> o.failed, error |-> o.error, value |-> o.value]

NoUnit == [fn |-> "none", input |-> <<>>, output |-> <<>>]

Init ==
    /\ \E w \in Worlds : chain = w.chain /\ config = w.config
    /\ now = StartTime
    /\ code_cache = EmptyCache
    /\ storage_cache = EmptyCache
    /\ creator_cache = EmptyCache
    /\ first_tx_cache = EmptyCache
    /\ tx_count_cache = EmptyCache
    /\ pc = "idle"
    /\ args = [address |-> <<>>, rpc_url |-> RPC_URL, basescan_api_key |-> ""]
    /\ frame = InitFrame
    /\ trace = <<>>
    /\ outcome = NoOutcome
    /\ completed = {}
    /\ ncalls = 0
    /\ nevents = 0
    /\ nfaults = 0
    /\ unit = NoUnit
    /\ history = NoHistory
    /\ http = [request |-> NoRequest, status |-> 0, response |-> 0, settlement |-> "none"]

(***************************************************************************)
(* RPC client and explorer lookups behind functools.lru_cache: a hit       *)
(* returns the stored value without a request, a miss sends one request    *)
(* and stores the value unless the function raised.                        *)
(***************************************************************************)
Hit(value) ==
    [raised |-> FALSE, error |-> "", value |-> value, sent |-> FALSE, failed |-> FALSE]

Answer(value) ==
    [raised |-> FALSE, error |-> "", value |-> value, sent |-> TRUE, failed |-> FALSE]

\* the request failed and the function returned None
Degraded ==
    [raised |-> FALSE, error |-> "", value |-> None, sent |-> TRUE, failed |-> TRUE]

\* the request failed and the function raised
Failure(error) ==
    [raised |-> TRUE, error |-> error, value |-> <<>>, sent |-> TRUE, failed |-> TRUE]

\* the failing outcomes of a request to the upstream, while the behaviour
\* may still inject a fault
Faulty(upstream, outcomes) ==
    IF chain.flaky = upstream /\ nfaults < MaxFaults THEN outcomes ELSE {}

CountFault(o) == nfaults' = IF o.failed THEN nfaults + 1 ELSE nfaults

\* get_code with the except clause returning "0x" instead of raising
get_code_swallowing(address, rpc_url) ==
    IF <<address, rpc_url>> \in CacheKeys(code_cache)
    THEN {Hit(CacheGet(code_cache, <<address, rpc_url>>))}
    ELSE {Answer(ChainCode(chain, address))}
             \cup Faulty("rpc", {[Failure("RPCError") EXCEPT !.raised = FALSE, !.value = EmptyHex]})

\* rpc.py 35-55 turn every fault of RpcFaults into RPCError; a body that
\* parses as JSON but is no object makes data.get raise AttributeError
get_code(address, rpc_url) ==
    IF <<address, rpc_url>> \in CacheKeys(code_cache)
    THEN {Hit(CacheGet(code_cache, <<address, rpc_url>>))}
    ELSE {Answer(ChainCode(chain, address))}
             \cup Faulty("rpc", {Failure("RPCError") : fault \in RpcFaults}
                                \cup {Failure("AttributeError")})

get_storage_at(address, slot, rpc_url) ==
    IF <<address, slot, rpc_url>> \in CacheKeys(storage_cache)
    THEN {Hit(CacheGet(storage_cache, <<address, slot, rpc_url>>))}
    ELSE {Answer(ChainStorage(chain, address, slot))}
             \cup Faulty("rpc", {Failure("RPCError") : fault \in RpcFaults}
                                \cup {Failure("AttributeError")})

\* a body that parses as JSON but lacks the keys the lookup indexes makes
\* the lookup raise (KeyError); every other failure makes it return None
get_contract_creator(address, api_key) ==
    IF <<address, api_key>> \in CacheKeys(creator_cache)
    THEN {Hit(CacheGet(creator_cache, <<address, api_key>>))}
    ELSE {Answer(IF Lower(address) = AccountLower THEN chain.explorer.creator ELSE None)}
             \cup Faulty("explorer",
                         {Degraded : fault \in ExplorerFaults} \cup {Failure("KeyError")})

get_first_tx_timestamp(deployer, api_key) ==
    IF <<deployer, api_key>> \in CacheKeys(first_tx_cache)
    THEN {Hit(CacheGet(first_tx_cache, <<deployer, api_key>>))}
    ELSE {Answer(IF deployer = Deployer THEN chain.explorer.first_ts ELSE None)}
             \cup Faulty("explorer",
                         {Degraded : fault \in ExplorerFaults} \cup {Failure("KeyError")})

\* a result that is not a hex number also yields None; a JSON body that is
\* not an object makes data.get raise (AttributeError)
get_tx_count(deployer, api_key) ==
    IF <<deployer, api_key>> \in CacheKeys(tx_count_cache)
    THEN {Hit(CacheGet(tx_count_cache, <<deployer, api_key>>))}
    ELSE {Answer(IF deployer = Deployer THEN chain.explorer.tx_count ELSE None)}
             \cup Faulty("explorer",
                         {Degraded : fault \in ExplorerFaults \cup {"result_not_hex"}}
                             \cup {Failure("AttributeError")})

\* the keys used with their values, most recent last, nothing forgotten
Used(cache, key, o) ==
    IF o.raised THEN cache
    ELSE SelectSeq(cache, LAMBDA e : e.key # key) \o <<[key |-> key, value |-> o.value]>>

\* a cache that keeps values and forgets a None
StoredUnlessNone(cache, key, o) ==
    IF o.raised \/ o.value = None THEN cache
    ELSE IF key \in CacheKeys(cache) THEN Used(cache, key, o)
    ELSE LET grown == Append(cache, [key |-> key, value |-> o.value])
         IN  IF Len(grown) > maxsize THEN Tail(grown) ELSE grown

\* lru_cache(maxsize=None): no entry is ever evicted
StoredUnbounded(cache, key, o) == Used(cache, key, o)

\* the cache after the invocation: nothing is stored when the function
\* raised; a hit makes the entry the most recent one; a miss adds the entry
\* and, the cache being full, evicts the least recently used one
Stored(cache, key, o) ==
    IF o.raised THEN cache
    ELSE IF key \in CacheKeys(cache) THEN Used(cache, key, o)
    ELSE LET grown == Append(cache, [key |-> key, value |-> o.value])
         IN  IF Len(grown) > maxsize THEN Tail(grown) ELSE grown

(***************************************************************************)
(* Engine                                                                  *)
(***************************************************************************)
\* the slot list with the OpenZeppelin slot tried first
_IMPL_SLOTS_OZ_FIRST ==
    <<[name |-> "OpenZeppelin", bytes |-> OZ_IMPL_SLOT],
      [name |-> "EIP-1967", bytes |-> EIP_1967_IMPL_SLOT],
      [name |-> "EIP-1822", bytes |-> EIP_1822_SLOT]>>

\* the slot list with the EIP-1967 admin slot probed as well
_IMPL_SLOTS_WITH_ADMIN ==
    <<[name |-> "EIP-1967", bytes |-> EIP_1967_IMPL_SLOT],
      [name |-> "EIP-1822", bytes |-> EIP_1822_SLOT],
      [name |-> "OpenZeppelin", bytes |-> OZ_IMPL_SLOT],
      [name |-> "EIP-1967 admin", bytes |-> EIP_1967_ADMIN_SLOT]>>

_IMPL_SLOTS ==
    <<[name |-> "EIP-1967", bytes |-> EIP_1967_IMPL_SLOT],
      [name |-> "EIP-1822", bytes |-> EIP_1822_SLOT],
      [name |-> "OpenZeppelin", bytes |-> OZ_IMPL_SLOT]>>

\* engine.py imports score_to_level from scoring, which defines _score_to_level
score_to_level(score) == _score_to_level(score)

\* len(hex_body) // 2 with hex_body the text after a leading "0x"
BytecodeSize(bytecode_hex) ==
    LET hex_body == IF StartsWith0x(bytecode_hex) THEN DropTwo(bytecode_hex) ELSE bytecode_hex
    IN  Len(hex_body) \div 2

\* value[-40:]
LastForty(value) == SubSeq(value, IF Len(value) > 40 THEN Len(value) - 39 ELSE 1, Len(value))

\* resolve_implementation without the test of the low 20 bytes
SlotAddressAnyWord(raw) ==
    LET value == IF StartsWith0x(raw) THEN DropTwo(raw) ELSE raw
    IN  IF value = <<>> \/ value = _ZERO_WORD \/ AllZeroChars(value) THEN None
        ELSE Some(Prefix0x \o LastForty(value))

\* the implementation address a slot value yields, or None (continue)
SlotAddress(raw) ==
    LET value == IF StartsWith0x(raw) THEN DropTwo(raw) ELSE raw
    IN  IF value = <<>> \/ value = _ZERO_WORD \/ AllZeroChars(value) THEN None
        ELSE IF AllZeroChars(LastForty(value)) THEN None
        ELSE Some(Prefix0x \o LastForty(value))

\* the implementation findings with the proxy filter left out
WithoutProxyKeepAll(findings) == findings

\* findings = [f for f in findings if f.detector != "proxy"]
WithoutProxy(findings) == SelectSeq(findings, LAMBDA f : f.detector # <<"proxy">>)

\* detector=f"impl_{f.detector}"
ImplName(detector) == <<"impl_">> \o detector

PrefixedFindings(findings) ==
    [i \in 1..Len(findings) |-> [findings[i] EXCEPT !.detector = ImplName(@)]]

\* the ImplementationResult built from the detector output on the implementation
ImplementationResult(impl_address, bytecode_size, detected) ==
    [address |-> impl_address, bytecode_size |-> bytecode_size,
     findings |-> PrefixedFindings(WithoutProxy(detected)),
     category_scores |-> AccumulateCategoryPoints(EmptyDict, WithoutProxy(detected))]

\* final_score without the min(100, ...)
FinalScoreUnclamped(score_result, impl_result) ==
    IF impl_result # None
    THEN score_result.score + SumValues(impl_result[1].category_scores)
    ELSE score_result.score

\* final_score of analyze_contract
FinalScore(score_result, impl_result) ==
    IF impl_result # None
    THEN Min(100, score_result.score + SumValues(impl_result[1].category_scores))
    ELSE score_result.score

\* final_category_scores without the implementation's entries
FinalCategoryScoresProxyOnly(score_result, impl_result) == score_result.category_scores

\* final_category_scores of analyze_contract
FinalCategoryScores(score_result, impl_result) ==
    IF impl_result = None THEN score_result.category_scores
    ELSE LET impl_scores == impl_result[1].category_scores
             prefixed == {ImplName(cat) : cat \in DOMAIN impl_scores}
         IN  [k \in (DOMAIN score_result.category_scores) \cup prefixed |->
                 IF k \in prefixed
                 THEN impl_scores[CHOOSE cat \in DOMAIN impl_scores : ImplName(cat) = k]
                 ELSE score_result.category_scores[k]]

\* the level of the proxy-level pass kept instead of re-derived
FinalLevelStale(score_result, final_score) == score_result.level

\* final_level = score_to_level(final_score)
FinalLevel(score_result, final_score) == score_to_level(final_score)

AnalysisResult(address, score_result, findings, bytecode_size, impl_result) ==
    LET final_score == FinalScore(score_result, impl_result)
    IN  [address |-> address,
         score |-> final_score,
         level |-> FinalLevel(score_result, final_score),
         findings |-> findings \o (IF impl_result # None THEN impl_result[1].findings ELSE <<>>),
         category_scores |-> FinalCategoryScores(score_result, impl_result),
         bytecode_size |-> bytecode_size,
         implementation |-> impl_result]

(***************************************************************************)
(* Actions                                                                 *)
(***************************************************************************)
\* the call ends by raising; the caches keep what was stored before
Raise(error, at) ==
    /\ pc' = "idle"
    /\ outcome' = Raised(error, at)

\* ADDRESS_RE without the $ anchor
ADDRESS_RE_unanchored(address) ==
    /\ Len(address) >= 42
    /\ address[1] = "0" /\ address[2] = "x"
    /\ \A i \in 3..42 : IsHexChar(address[i])

\* ADDRESS_RE.match(address) with ADDRESS_RE = ^0x[0-9a-fA-F]{40}$; the $
\* would also match before a final newline, which strip() has removed
ADDRESS_RE(address) ==
    /\ Len(address) = 42
    /\ address[1] = "0" /\ address[2] = "x"
    /\ \A i \in 3..42 : IsHexChar(address[i])

\* app.py 1058-1062: the query parameter, else the address of a JSON body
RequestAddress(request) ==
    LET address == Strip(request.query)
    IN  IF address = <<>> /\ request.json # None THEN Strip(request.json[1])
        ELSE address

\* app.py 1077-1078 and Flask's handling of an uncaught exception: the
\* status of the response the route produces when analyze_contract ends
RouteStatus(o) ==
    IF o.kind = "returned" THEN 200
    ELSE IF o.error = "RPCError" THEN 502
    ELSE 500

\* a hook that does not look at the status of the response
x402_settle_any_status(response, request) ==
    IF config.enable_x402 /\ request.payment = "payment-verified"
    THEN {[response |-> response, settlement |-> s] : s \in {"settled", "failed"}}
    ELSE {[response |-> response, settlement |-> "none"]}

\* app.py 591-602, registered when ENABLE_X402 is set: the after_request hook
\* attempts the settlement when the response is a 200 and the gate stored
\* the payload and requirements of a verified payment; the attempt may fail,
\* the exception is logged and the response is returned as it was
x402_settle(response, request) ==
    IF config.enable_x402 /\ response = 200 /\ request.payment = "payment-verified"
    THEN {[response |-> response, settlement |-> s] : s \in {"settled", "failed"}}
    ELSE {[response |-> response, settlement |-> "none"]}

\* the request ends with the status, analyze_contract is not called
Reject(request, status) ==
    /\ pc' = "idle"
    /\ \E r \in x402_settle(status, request) :
           http' = [request |-> request, status |-> status,
                    response |-> r.response, settlement |-> r.settlement]
    /\ frame' = InitFrame
    /\ trace' = <<>>
    /\ outcome' = NoOutcome
    /\ ncalls' = ncalls + 1
    /\ UNCHANGED <<world, unit, now, caches, args, completed, nevents, nfaults>>

\* app.py 1074-1076: the route invokes
\* analyze_contract(address, config.base_rpc_url, config.basescan_api_key)
Analyze(address) ==
    /\ pc = "idle"
    /\ ncalls < MaxCalls
    /\ pc' = "get_code"
    /\ args' = [address |-> address, rpc_url |-> config.base_rpc_url,
                basescan_api_key |-> config.basescan_api_key]
    /\ frame' = InitFrame
    /\ trace' = <<>>
    /\ outcome' = NoOutcome
    /\ ncalls' = ncalls + 1
    /\ UNCHANGED <<world, unit, now, caches, completed, nevents, nfaults>>

\* a request to /analyze: the payment gate (app.py 558-590) answers 402
\* unless the payment is verified, the route (app.py 1056-1072) answers 422
\* unless the address has the shape of an address, and calls analyze_contract
AnalyzeRoute(request) ==
    /\ pc = "idle"
    /\ ~ResponsePending
    /\ ncalls < MaxCalls
    /\ IF config.enable_x402 /\ request.payment # "payment-verified"
       THEN Reject(request, 402)
       ELSE LET address == RequestAddress(request)
            IN  IF address = <<>> THEN Reject(request, 422)
                ELSE IF ~ADDRESS_RE(address) THEN Reject(request, 422)
                ELSE /\ Analyze(address)
                     /\ http' = [request |-> request, status |-> 0,
                                  response |-> 0, settlement |-> "none"]

\* engine.py 156-163: fetch, size, disassemble, run the detectors
FetchAndDetect ==
    /\ pc = "get_code"
    /\ \E o \in get_code(args.address, args.rpc_url) :
        /\ code_cache' = Stored(code_cache, <<args.address, args.rpc_url>>, o)
        /\ history' = [history EXCEPT
                           !.code = Used(@, <<args.address, args.rpc_url>>, o)]
        /\ CountFault(o)
        /\ trace' = Append(trace, Invocation("get_code", args.address, <<>>, o))
        /\ IF o.raised
           THEN Raise(o.error, "get_code") /\ UNCHANGED frame
           ELSE IF DisassembleRaises(o.value)
           THEN Raise("ValueError", "disassemble") /\ UNCHANGED frame
           ELSE /\ frame' = [frame EXCEPT
                                !.bytecode_hex = o.value,
                                !.bytecode_size = BytecodeSize(o.value),
                                !.findings = run_all_detectors(disassemble(o.value))]
                /\ pc' = "reputation"
                /\ UNCHANGED outcome
    /\ UNCHANGED <<world, unit, http, now, storage_cache, reputation_caches, args, completed, counters>>

CreatorNotFound ==
    Finding(<<"deployer_reputation">>, "info", "Contract creator not found on Basescan",
            <<>>, 3, NoOffset)

\* deployer[:10]
FirstTen(s) == SubSeq(s, 1, Min(10, Len(s)))

YoungWallet(deployer, age_days_int) ==
    Finding(<<"deployer_reputation">>, "info", "Deployer wallet is very new",
            <<FirstTen(deployer), age_days_int>>, 5, NoOffset)

FewTransactions(deployer, tx_count) ==
    Finding(<<"deployer_reputation">>, "info", "Deployer wallet has very few transactions",
            <<FirstTen(deployer), tx_count>>, 5, NoOffset)

\* reputation.py 128-147: no key, or the creator lookup
LookupCreator ==
    /\ pc = "reputation"
    /\ IF args.basescan_api_key = ""
       THEN /\ pc' = "score"
            /\ UNCHANGED <<creator_cache, history, trace, frame, outcome, nfaults>>
       ELSE \E o \in get_contract_creator(args.address, args.basescan_api_key) :
            /\ creator_cache' =
                   Stored(creator_cache, <<args.address, args.basescan_api_key>>, o)
            /\ history' = [history EXCEPT
                               !.creator = Used(@, <<args.address, args.basescan_api_key>>, o)]
            /\ CountFault(o)
            /\ trace' = Append(trace,
                   Invocation("get_contract_creator", args.address, <<>>, o))
            /\ IF o.raised
               THEN Raise(o.error, "get_contract_creator") /\ UNCHANGED frame
               ELSE IF o.value = None
               THEN /\ frame' = [frame EXCEPT !.findings = @ \o <<CreatorNotFound>>]
                    /\ pc' = "score"
                    /\ UNCHANGED outcome
               ELSE /\ frame' = [frame EXCEPT !.deployer = o.value]
                    /\ pc' = "first_tx"
                    /\ UNCHANGED outcome
    /\ UNCHANGED <<world, unit, http, now, code_cache, storage_cache, first_tx_cache,
                   tx_count_cache, args, completed, counters>>

\* the age taken at the start of the service instead of at the call
IsYoungAtStart(first_ts) == StartTime - first_ts < YOUNG_WALLET_DAYS * SecondsPerDay

\* age_days < YOUNG_WALLET_DAYS with age_days = (int(time.time()) - first_ts) / 86400
IsYoung(first_ts) == now - first_ts < YOUNG_WALLET_DAYS * SecondsPerDay

\* reputation.py 149-166: wallet age
CheckWalletAge ==
    /\ pc = "first_tx"
    /\ \E o \in get_first_tx_timestamp(frame.deployer[1], args.basescan_api_key) :
        /\ first_tx_cache' =
               Stored(first_tx_cache, <<frame.deployer[1], args.basescan_api_key>>, o)
        /\ history' = [history EXCEPT
                           !.first_tx = Used(@, <<frame.deployer[1], args.basescan_api_key>>, o)]
        /\ CountFault(o)
        /\ trace' = Append(trace,
               Invocation("get_first_tx_timestamp", frame.deployer[1], <<>>, o))
        /\ IF o.raised
           THEN Raise(o.error, "get_first_tx_timestamp") /\ UNCHANGED frame
           ELSE /\ frame' =
                       IF o.value # None /\ IsYoung(o.value[1])
                       THEN [frame EXCEPT !.findings = @ \o
                                <<YoungWallet(frame.deployer[1],
                                              (now - o.value[1]) \div SecondsPerDay)>>]
                       ELSE frame
                /\ pc' = "tx_count"
                /\ UNCHANGED outcome
    /\ UNCHANGED <<world, unit, http, now, code_cache, storage_cache, creator_cache,
                   tx_count_cache, args, completed, counters>>

\* reputation.py 168-185: transaction count
CheckTxCount ==
    /\ pc = "tx_count"
    /\ \E o \in get_tx_count(frame.deployer[1], args.basescan_api_key) :
        /\ tx_count_cache' =
               Stored(tx_count_cache, <<frame.deployer[1], args.basescan_api_key>>, o)
        /\ history' = [history EXCEPT
                           !.tx_count = Used(@, <<frame.deployer[1], args.basescan_api_key>>, o)]
        /\ CountFault(o)
        /\ trace' = Append(trace,
               Invocation("get_tx_count", frame.deployer[1], <<>>, o))
        /\ IF o.raised
           THEN Raise(o.error, "get_tx_count") /\ UNCHANGED frame
           ELSE /\ frame' =
                       IF o.value # None /\ o.value[1] < LOW_TX_COUNT
                       THEN [frame EXCEPT !.findings = @ \o
                                <<FewTransactions(frame.deployer[1], o.value[1])>>]
                       ELSE frame
                /\ pc' = "score"
                /\ UNCHANGED outcome
    /\ UNCHANGED <<world, unit, http, now, code_cache, storage_cache, creator_cache,
                   first_tx_cache, args, completed, counters>>

\* is_proxy = any(f.detector == "proxy" for f in findings)
HasProxyFinding(findings) == \E i \in 1..Len(findings) : findings[i].detector = <<"proxy">>

\* engine.py 165-171: score the proxy-level pass, decide on the proxy branch
Score ==
    /\ pc = "score"
    /\ LET is_proxy == HasProxyFinding(frame.findings)
       IN  /\ frame' = [frame EXCEPT
                           !.score_result =
                               Some(compute_score(frame.findings,
                                                  disassemble(frame.bytecode_hex),
                                                  frame.bytecode_hex)),
                           !.is_proxy = is_proxy,
                           !.slot_index = IF is_proxy THEN 1 ELSE 0]
           /\ pc' = IF is_proxy THEN "resolve" ELSE "merge"
    /\ UNCHANGED <<world, unit, http, now, caches, args, trace, outcome, completed, counters, nfaults>>

\* except RPCError: the handlers of resolve_implementation and
\* _analyze_implementation catch this error and no other
Caught(o) == o.raised /\ o.error = "RPCError"

\* one iteration of the loop of resolve_implementation
ResolveSlot ==
    /\ pc = "resolve"
    /\ LET slot == _IMPL_SLOTS[frame.slot_index]
           slot_hex == HexText(slot.bytes)
       IN  \E o \in get_storage_at(args.address, slot_hex, args.rpc_url) :
            /\ storage_cache' =
                   Stored(storage_cache, <<args.address, slot_hex, args.rpc_url>>, o)
            /\ history' = [history EXCEPT
                               !.storage = Used(@, <<args.address, slot_hex, args.rpc_url>>, o)]
            /\ CountFault(o)
            /\ trace' = Append(trace,
                   Invocation("get_storage_at", args.address, slot.bytes, o))
            /\ IF o.raised /\ ~Caught(o)
               THEN Raise(o.error, "get_storage_at") /\ UNCHANGED frame
               ELSE LET found == IF Caught(o) THEN None ELSE SlotAddress(o.value)
                    IN  /\ IF found # None
                           THEN /\ frame' = [frame EXCEPT !.impl_address = found]
                                /\ pc' = "impl"
                           ELSE IF frame.slot_index < Len(_IMPL_SLOTS)
                           THEN /\ frame' = [frame EXCEPT !.slot_index = @ + 1]
                                /\ pc' = "resolve"
                           ELSE /\ frame' = frame
                                /\ pc' = "merge"
                        /\ UNCHANGED outcome
    /\ UNCHANGED <<world, unit, http, now, code_cache, reputation_caches, args, completed, counters>>

\* _analyze_implementation without the bytecode_size == 0 test
NoImplementationOnError(o) == Caught(o)

\* engine.py 101-111: _analyze_implementation returns None when the fetch
\* raised RPCError or the code is empty
NoImplementation(o) == Caught(o) \/ BytecodeSize(o.value) = 0

\* _analyze_implementation resolving the implementation again when the
\* implementation is itself a proxy
AfterImplementationFollowing(detected) ==
    IF HasProxyFinding(detected) THEN "resolve" ELSE "merge"

\* engine.py 113-145: _analyze_implementation runs the detectors and
\* returns; it never calls resolve_implementation, whatever was detected
AfterImplementation(detected) == "merge"

\* _analyze_implementation
AnalyzeImplementation ==
    /\ pc = "impl"
    /\ \E o \in get_code(frame.impl_address[1], args.rpc_url) :
        /\ code_cache' = Stored(code_cache, <<frame.impl_address[1], args.rpc_url>>, o)
        /\ history' = [history EXCEPT
                           !.code = Used(@, <<frame.impl_address[1], args.rpc_url>>, o)]
        /\ CountFault(o)
        /\ trace' = Append(trace,
               Invocation("get_code", frame.impl_address[1], <<>>, o))
        /\ IF o.raised /\ ~Caught(o)
           THEN Raise(o.error, "impl_get_code") /\ UNCHANGED frame
           ELSE IF NoImplementation(o)
           THEN /\ pc' = "merge"
                /\ UNCHANGED <<frame, outcome>>
           ELSE IF DisassembleRaises(o.value)
           THEN Raise("ValueError", "impl_disassemble") /\ UNCHANGED frame
           ELSE LET detected == run_all_detectors(disassemble(o.value))
                IN  /\ frame' = [frame EXCEPT
                                    !.impl_detected = detected,
                                    !.impl_result =
                                        Some(ImplementationResult(frame.impl_address[1],
                                                                  BytecodeSize(o.value),
                                                                  detected))]
                    /\ pc' = AfterImplementation(detected)
                    /\ UNCHANGED outcome
    /\ UNCHANGED <<world, unit, http, now, storage_cache, reputation_caches, args, completed, counters>>

\* engine.py 176-198: combine and return
Merge ==
    /\ pc = "merge"
    /\ LET result == AnalysisResult(args.address, frame.score_result[1], frame.findings,
                                    frame.bytecode_size, frame.impl_result)
       IN  /\ outcome' = Returned(result)
           /\ completed' = completed \cup
                  {[call |-> ncalls, address |-> args.address, rpc_url |-> args.rpc_url,
                    basescan_api_key |-> args.basescan_api_key, result |-> result]}
    /\ pc' = "idle"
    /\ UNCHANGED <<world, unit, http, now, caches, args, frame, trace, counters, nfaults>>

\* app.py 1074-1100 and 591-602: analyze_contract has returned or raised,
\* the route produces its response and the after_request hook sees it
Respond ==
    /\ ResponsePending
    /\ \E r \in x402_settle(RouteStatus(outcome), http.request) :
           http' = [http EXCEPT !.response = r.response, !.settlement = r.settlement]
    /\ UNCHANGED <<world, unit, now, caches, pc, args, frame, trace, outcome, completed,
                   counters, nfaults>>

\* rpc.clear_cache(); clearing empty caches changes nothing and is left out
ClearCache ==
    /\ BetweenCalls
    /\ code_cache # EmptyCache \/ storage_cache # EmptyCache
    /\ nevents < MaxEvents
    /\ code_cache' = EmptyCache
    /\ storage_cache' = EmptyCache
    /\ history' = [history EXCEPT !.code = <<>>, !.storage = <<>>]
    /\ completed' = {}
    /\ nevents' = nevents + 1
    /\ UNCHANGED <<world, unit, http, now, reputation_caches, pc, args, frame, trace, outcome,
                   ncalls, nfaults>>

\* reputation.clear_reputation_cache(); clearing empty caches is left out
ClearReputationCache ==
    /\ BetweenCalls
    /\ creator_cache # EmptyCache
    /\ nevents < MaxEvents
    /\ creator_cache' = EmptyCache
    /\ first_tx_cache' = EmptyCache
    /\ tx_count_cache' = EmptyCache
    /\ history' = [history EXCEPT !.creator = <<>>, !.first_tx = <<>>, !.tx_count = <<>>]
    /\ completed' = {}
    /\ nevents' = nevents + 1
    /\ UNCHANGED <<world, unit, http, now, code_cache, storage_cache, pc, args, frame, trace,
                   outcome, ncalls, nfaults>>

\* a day passes between two calls; the clock is read only by
\* detect_deployer_reputation, and only when an API key is configured
Tick ==
    /\ BetweenCalls
    /\ config.basescan_api_key # ""
    /\ nevents < MaxEvents
    /\ now' = now + SecondsPerDay
    /\ nevents' = nevents + 1
    /\ UNCHANGED <<world, unit, http, caches, pc, args, frame, trace, outcome, completed,
                   ncalls, nfaults>>

(***************************************************************************)
(* Direct calls of the pure functions, as tests/test_opcodes.py,           *)
(* tests/test_disassembler.py and tests/test_scoring.py make them.  They   *)
(* read and change no state of the service, so they are explored from one  *)
(* initial state only and end the behaviour (pc = "unit").                 *)
(***************************************************************************)
SeqsUpTo(S, n) == UNION {[1..k -> S] : k \in 0..n}

\* STOP, PUSH0, PUSH1, PUSH2, PUSH32 and the undefined byte 0x0C
UnitBytes == {0, 95, 96, 97, 127, 12}

UnitByteStrings == SeqsUpTo(UnitBytes, MaxCodeLen)

\* Finding(detector, severity, "test", "test", points) of tests/test_scoring.py
TestFinding(detector, points) ==
    Finding(detector, "critical", "test", <<>>, points, NoOffset)

UnitFindings ==
    {TestFinding(<<"selfdestruct">>, 30), TestFinding(<<"deployer_reputation">>, 8),
     TestFinding(<<"custom">>, 60), TestFinding(<<"custom">>, 45),
     TestFinding(<<"proxy">>, 10)}

UnitFindingLists == SeqsUpTo(UnitFindings, MaxFindings)

\* PUSH4 renounceOwnership() and a STOP: tiny, with one suspicious selector
TinyCode == <<99, 113, 80, 24, 166, 0>>

\* the text handed to compute_score: 203 bytes, 6 bytes, no byte with and
\* without the 0x prefix, 199 bytes and 200 bytes
UnitBytecodes ==
    {HexText(CleanCode), BytesHex(TinyCode), <<>>, EmptyHex,
     BytesHex(Repeat(<<127>> \o Repeat(<<0>>, 32), 6) \o <<0>>),
     HexText(Repeat(<<127>> \o Repeat(<<0>>, 32), 6) \o <<0, 0>>)}

DirectCall ==
    /\ pc = "idle"
    /\ ncalls = 0
    /\ chain = QuietChain
    /\ config.basescan_api_key = ""
    /\ pc' = "unit"
    /\ UNCHANGED <<world, http, now, caches, args, frame, trace, outcome, completed,
                   counters, nfaults>>

CallLookup(opcode) ==
    /\ DirectCall
    /\ unit' = [fn |-> "lookup", input |-> opcode, output |-> lookup(opcode)]

CallDisassemble(raw) ==
    /\ DirectCall
    /\ unit' = [fn |-> "disassemble", input |-> raw,
                output |-> disassemble(BytesHex(raw))]

CallComputeScore ==
    /\ DirectCall
    /\ \E findings \in UnitFindingLists, bytecode \in UnitBytecodes :
           unit' = [fn |-> "compute_score",
                    input |-> [findings |-> findings, bytecode |-> bytecode],
                    output |-> compute_score(findings, disassemble(bytecode), bytecode)]

CallScoreToLevel(score) ==
    /\ DirectCall
    /\ unit' = [fn |-> "_score_to_level", input |-> score,
                output |-> _score_to_level(score)]

\* the code of tests/test_patterns.py 82-101 and its neighbours: every run
\* of EQ, JUMPI, REVERT and JUMPDEST behind PUSH4 transfer(address,uint256),
\* short runs without a selector or before a PUSH4 cut off after three
\* operand bytes, and the selectors of transfer, transferFrom and approve
\* before each comparison-like opcode (0x0F..0x15), JUMPI, REVERT
HoneypotCodes ==
    LET PatternBytes == {20, 87, 253, 91}
        PushTransfer == <<99, 169, 5, 156, 187>>
        PushTransferFrom == <<99, 35, 184, 114, 221>>
        PushApprove == <<99, 9, 94, 167, 179>>
        PushTransferCut == <<99, 169, 5, 156>>
    IN  {PushTransfer \o body : body \in SeqsUpTo(PatternBytes, MaxPatternLen)}
            \cup {body \o tail : body \in SeqsUpTo(PatternBytes, MaxCodeLen),
                                  tail \in {<<>>, PushTransferCut}}
            \cup {head \o <<op, 87, 253>> :
                      head \in {PushTransfer, PushTransferFrom, PushApprove},
                      op \in 15..21}

\* detect_honeypot_patterns(disassemble(bytecode)) on one of the codes
CallDetectHoneypot ==
    /\ DirectCall
    /\ \E raw \in HoneypotCodes :
           unit' = [fn |-> "detect_honeypot_patterns",
                    input |-> disassemble(BytesHex(raw)),
                    output |-> detect_honeypot_patterns(disassemble(BytesHex(raw)))]

\* detect_reentrancy_risk(disassemble(bytecode)) on the code of
\* tests/test_patterns.py 50-63 stretched: nothing, a JUMPDEST, an SSTORE or
\* another CALL, then CALL, a run of JUMPDEST, of PUSH1 0x55 or of PUSH32 0,
\* then SSTORE; and the same without the final SSTORE
CallDetectReentrancy ==
    /\ DirectCall
    /\ \E lead \in {<<>>, <<91>>, <<85>>, <<241>>},
          filler \in {<<91>>, <<96, 85>>, <<127>> \o Repeat(<<0>>, 32)},
          gap \in 0..MaxGap, last \in {<<85>>, <<>>} :
           LET raw == lead \o <<241>> \o Repeat(filler, gap) \o last
           IN  unit' = [fn |-> "detect_reentrancy_risk",
                        input |-> disassemble(BytesHex(raw)),
                        output |-> detect_reentrancy_risk(disassemble(BytesHex(raw)))]

\* run_all_detectors(disassemble(bytecode)) on the code of
\* tests/test_patterns.py 30-47 and 132-140 varied: a run of DELEGATECALL,
\* JUMPDEST and SELFDESTRUCT, alone or next to a PUSH32 of one of the five
\* slots, of zeros, or of a slot that lacks its last byte
CallRunAllDetectors ==
    /\ DirectCall
    /\ \E run \in SeqsUpTo({244, 91, 255}, MaxCodeLen),
          push \in {<<127>> \o slot : slot \in PROXY_SLOTS}
                       \cup {<<>>, <<127>> \o Repeat(<<0>>, 32),
                             <<127>> \o SubSeq(EIP_1967_IMPL_SLOT, 1, 31)},
          first \in BOOLEAN :
           LET raw == IF first THEN push \o run ELSE run \o push
           IN  unit' = [fn |-> "run_all_detectors",
                        input |-> disassemble(BytesHex(raw)),
                        output |-> run_all_detectors(disassemble(BytesHex(raw)))]

\* the n-th address of a run of distinct addresses
ScanAddress(n) ==
    Prefix0x \o Repeat(<<"0">>, 37)
        \o <<HexLower[(n \div 256) + 1], HexLower[((n \div 16) % 16) + 1],
             HexLower[(n % 16) + 1]>>

\* rpc.get_code called directly, as tests/test_rpc.py does: address after
\* address, each a new one, or the first address once more, which ends the
\* behaviour; unit.input counts the calls
CallGetCode(again) ==
    /\ chain = QuietChain
    /\ config.basescan_api_key = ""
    /\ \/ pc = "idle" /\ ncalls = 0 /\ ~again
       \/ pc = "scan" /\ (again \/ unit.input <= maxsize)
    /\ LET n == IF pc = "idle" THEN 0 ELSE unit.input
           address == IF again THEN ScanAddress(1) ELSE ScanAddress(n + 1)
       IN  \E o \in get_code(address, config.base_rpc_url) :
            /\ code_cache' = Stored(code_cache, <<address, config.base_rpc_url>>, o)
            /\ history' = [history EXCEPT
                               !.code = Used(@, <<address, config.base_rpc_url>>, o)]
            /\ CountFault(o)
            /\ unit' = [fn |-> "get_code", input |-> n + 1,
                        output |-> Invocation("get_code", address, <<>>, o)]
    /\ pc' = IF again THEN "unit" ELSE "scan"
    /\ UNCHANGED <<world, http, now, storage_cache, reputation_caches, args, frame, trace,
                   outcome, completed, counters>>

Next ==
    \/ \E request \in Requests(config.enable_x402) : AnalyzeRoute(request)
    \/ FetchAndDetect
    \/ LookupCreator
    \/ CheckWalletAge
    \/ CheckTxCount
    \/ Score
    \/ ResolveSlot
    \/ AnalyzeImplementation
    \/ Merge
    \/ Respond
    \/ ClearCache
    \/ ClearReputationCache
    \/ Tick
    \/ \E opcode \in 0..255 : CallLookup(opcode)
    \/ \E raw \in UnitByteStrings : CallDisassemble(raw)
    \/ CallComputeScore
    \/ \E score \in 0..100 : CallScoreToLevel(score)
    \/ CallDetectHoneypot
    \/ CallDetectReentrancy
    \/ CallRunAllDetectors
    \/ \E again \in BOOLEAN : CallGetCode(again)

Spec == Init /\ [][Next]_vars

(***************************************************************************)
(* Properties                                                              *)
(***************************************************************************)
HasReturned == outcome.kind = "returned"

HasRaised == outcome.kind = "raised"

\* the AnalysisResult of the last call, when it returned
LastResult == outcome.result[1]

\* the score result of the proxy-level pass of the last call
ProxyPass == frame.score_result[1]

TraceIndices(fn) == {i \in 1..Len(trace) : trace[i].fn = fn}

\* C1: the score compute_score produces and the score analyze_contract
\* returns are both integers between 0 and 100
ScoreInRange ==
    /\ frame.score_result # None => ProxyPass.score \in 0..100
    /\ HasReturned => LastResult.score \in 0..100

\* C1: a merge whose proxy score plus implementation total exceeds 100, and a
\* proxy-level pass whose categories sum to 100 or more
ScoreSaturates ==
    /\ HasReturned
    /\ LastResult.implementation # None
    /\ ProxyPass.score + SumValues(LastResult.implementation[1].category_scores) > 100
    /\ LastResult.score = 100

(***************************************************************************)
(* C2                                                                      *)
(***************************************************************************)
\* the first invocation of the call, the get_code of the requested address,
\* failed with RPCError
InitialFetchFailed ==
    /\ Len(trace) >= 1
    /\ trace[1].fn = "get_code"
    /\ trace[1].address = args.address
    /\ trace[1].failed
    /\ trace[1].error = "RPCError"

LastInvocation == trace[Len(trace)]

\* the hex text the last invocation fetched does not parse
FetchedCodeMalformed ==
    /\ LastInvocation.fn = "get_code"
    /\ ~LastInvocation.failed
    /\ ~FromHexOk(DisassembleHexStr(LastInvocation.value))

\* the last invocation received a body that is JSON of an unexpected shape
BodyMisshapen ==
    /\ LastInvocation.failed
    /\ LastInvocation.error \in {"AttributeError", "KeyError"}

SlotsFailedOrZero ==
    /\ Cardinality(TraceIndices("get_storage_at")) = 3
    /\ \A i \in TraceIndices("get_storage_at") :
           trace[i].failed \/ AllZeroChars(DropTwo(trace[i].value))

ImplFetchFailed == \E i \in TraceIndices("get_code") : i > 1 /\ trace[i].failed

ImplCodeEmpty ==
    \E i \in TraceIndices("get_code") :
        /\ i > 1
        /\ ~trace[i].failed
        /\ trace[i].value = EmptyHex

\* C3: when a proxy is detected and the implementation cannot be resolved or
\* fetched or is empty, the call returns with no implementation and with
\* the findings, category scores, score and level of the proxy-level pass
ProxyAloneWhenUnresolved ==
    HasReturned /\ frame.is_proxy /\ (SlotsFailedOrZero \/ ImplFetchFailed \/ ImplCodeEmpty) =>
        /\ LastResult.implementation = None
        /\ LastResult.findings = frame.findings
        /\ LastResult.category_scores = ProxyPass.category_scores
        /\ LastResult.score = ProxyPass.score
        /\ LastResult.level = ProxyPass.level

\* C3: a proxy all of whose slot reads failed
ProxyWithEveryReadFailing ==
    /\ HasReturned
    /\ frame.is_proxy
    /\ SlotsFailedOrZero
    /\ \A i \in TraceIndices("get_storage_at") : trace[i].failed
    /\ LastResult.score > 0

(***************************************************************************)
(* C4                                                                      *)
(***************************************************************************)
\* C4: when get_code returns "0x" the result has bytecode_size 0, no
\* findings, score 0, level safe and no implementation, with or without an
\* explorer key
EmptyAccountIsSafe ==
    HasReturned /\ frame.bytecode_hex = EmptyHex =>
        /\ LastResult.bytecode_size = 0
        /\ LastResult.findings = <<>>
        /\ LastResult.score = 0
        /\ LastResult.level = "safe"
        /\ LastResult.implementation = None

(***************************************************************************)
(* C5, C6, C7                                                              *)
(***************************************************************************)
\* the calls that returned before the current one, with no cache clear
\* since, for the same (address, rpc_url, basescan_api_key)
EarlierSame ==
    {h \in completed : /\ h.call < ncalls
                       /\ h.address = args.address
                       /\ h.rpc_url = args.rpc_url
                       /\ h.basescan_api_key = args.basescan_api_key}

\* the same, for the address written in another letter case
EarlierOtherCase ==
    {h \in completed : /\ h.call < ncalls
                       /\ h.address # args.address
                       /\ Lower(h.address) = Lower(args.address)
                       /\ h.rpc_url = args.rpc_url
                       /\ h.basescan_api_key = args.basescan_api_key}

\* C5: a second analyze_contract call with the same arguments sends no RPC
\* and no explorer request and returns the result of the first call
RepeatSendsNothing ==
    EarlierSame # {} =>
        /\ \A i \in 1..Len(trace) : ~trace[i].sent
        /\ ~HasRaised
        /\ HasReturned => \E h \in EarlierSame : LastResult = h.result

\* C6: a call for an address already analysed in another letter case sends
\* no RPC request and returns the same score, level, findings and category
\* scores
OtherCaseSendsNoRpc ==
    EarlierOtherCase # {} =>
        /\ \A i \in TraceIndices("get_code") \cup TraceIndices("get_storage_at") :
               ~trace[i].sent
        /\ HasReturned =>
               \E h \in EarlierOtherCase :
                   /\ LastResult.score = h.result.score
                   /\ LastResult.level = h.result.level
                   /\ LastResult.findings = h.result.findings
                   /\ LastResult.category_scores = h.result.category_scores

\* C7: with no cache clear in between, a repeated analysis of the same
\* arguments returns a result equal in every field to the earlier one
RepeatIsIdentical ==
    HasReturned => \A h \in EarlierSame : LastResult = h.result

(***************************************************************************)
(* C8                                                                      *)
(***************************************************************************)
\* C8: the merged findings are the proxy-pass findings followed by the
\* implementation findings; every detector finding on the implementation
\* other than proxy occurs there exactly once, renamed impl_<detector>; no
\* finding is named impl_proxy
MergedFindings ==
    HasReturned =>
        LET merged == LastResult.findings
        IN  /\ \A i \in 1..Len(merged) : merged[i].detector # <<"impl_", "proxy">>
            /\ LastResult.implementation # None =>
                   LET impl == LastResult.implementation[1].findings
                       detected == frame.impl_detected
                       kept == {j \in 1..Len(detected) : detected[j].detector # <<"proxy">>}
                   IN  /\ merged = frame.findings \o impl
                       /\ Len(impl) = Cardinality(kept)
                       /\ \A j \in kept :
                              Cardinality({i \in 1..Len(impl) :
                                  impl[i] = [detected[j] EXCEPT
                                                !.detector = <<"impl_">> \o @]}) = 1

\* C8: a merged result whose implementation is itself a proxy
MergedProxyImplementation ==
    /\ HasReturned
    /\ LastResult.implementation # None
    /\ HasProxyFinding(frame.impl_detected)
    /\ Len(LastResult.implementation[1].findings) >= 1
    /\ Len(LastResult.findings) > Len(frame.findings)

(***************************************************************************)
(* C9                                                                      *)
(***************************************************************************)
RECURSIVE PointsIn(_, _)
\* the points the findings of one detector add up to
PointsIn(findings, detector) ==
    IF findings = <<>> THEN 0
    ELSE (IF Head(findings).detector = detector THEN Head(findings).points ELSE 0)
             + PointsIn(Tail(findings), detector)

\* the categories of the implementation: its detectors other than proxy
ImplCategories ==
    {frame.impl_detected[j].detector : j \in 1..Len(frame.impl_detected)} \ {<<"proxy">>}

\* C9: with an implementation merged, the score is min(100, proxy score +
\* sum of the implementation's capped category totals), category_scores
\* keeps the proxy keys unchanged and adds one impl_<category> key per
\* implementation category, and the level is derived from the merged score
MergedScore ==
    HasReturned /\ LastResult.implementation # None =>
        LET totals == [c \in ImplCategories |->
                          Min(CapOf(c), PointsIn(frame.impl_detected, c))]
            merged == LastResult.category_scores
            proxy == ProxyPass.category_scores
        IN  /\ LastResult.score = Min(100, ProxyPass.score + SumValues(totals))
            /\ DOMAIN merged = (DOMAIN proxy) \cup {<<"impl_">> \o c : c \in ImplCategories}
            /\ \A k \in DOMAIN proxy : merged[k] = proxy[k]
            /\ \A c \in ImplCategories : merged[<<"impl_">> \o c] = totals[c]
            /\ LastResult.level = _score_to_level(LastResult.score)

\* C9: a merge that moves the result to another level
MergeChangesLevel ==
    /\ HasReturned
    /\ LastResult.implementation # None
    /\ LastResult.score > ProxyPass.score
    /\ LastResult.level # ProxyPass.level

(***************************************************************************)
(* C10                                                                     *)
(***************************************************************************)
StorageReads == TraceIndices("get_storage_at")

\* the slots in the order the contract is to be probed
PriorityOrder == <<EIP_1967_IMPL_SLOT, EIP_1822_SLOT, OZ_IMPL_SLOT>>

Rank(i) == Cardinality({j \in StorageReads : j <= i})

\* the read obtained a word whose low 20 bytes are not zero
YieldsAddress(i) ==
    /\ ~trace[i].failed
    /\ ~AllZeroChars(LastForty(DropTwo(trace[i].value)))

\* C10: storage is read only after the bytecode of the requested contract
\* was fetched and a proxy finding exists; the reads go through the
\* EIP-1967, EIP-1822 and OpenZeppelin implementation slots in that order
\* and stop at the first one that yields an address; no admin slot is read
StorageReadDiscipline ==
    \A i \in StorageReads :
        /\ i > 1
        /\ trace[1].fn = "get_code" /\ trace[1].address = args.address
        /\ ~trace[1].failed
        /\ HasProxyFinding(frame.findings)
        /\ trace[i].address = args.address
        /\ Rank(i) <= Len(PriorityOrder)
        /\ trace[i].slot = PriorityOrder[Rank(i)]
        /\ trace[i].slot \notin {EIP_1967_ADMIN_SLOT, OZ_ADMIN_SLOT}
        /\ YieldsAddress(i) => \A j \in StorageReads : j <= i

\* C10: the third slot read is the one that yields the address
ThirdSlotYields ==
    /\ Cardinality(StorageReads) = 3
    /\ \E i \in StorageReads : Rank(i) = 3 /\ YieldsAddress(i)
    /\ HasReturned

(***************************************************************************)
(* C11                                                                     *)
(***************************************************************************)
\* resolve_implementation has returned to analyze_contract
ResolutionDone ==
    /\ frame.is_proxy
    /\ \/ pc \in {"impl", "merge"}
       \/ pc = "idle" /\ HasReturned
       \/ pc = "idle" /\ HasRaised /\ outcome.at # "get_storage_at"

\* the read obtained a 32-byte word that is not zero
NonZeroWord(i) ==
    /\ ~trace[i].failed
    /\ ~AllZeroChars(DropTwo(trace[i].value))

\* the address made of the low 20 bytes of the word read
LowTwentyBytes(i) == Some(Prefix0x \o LastForty(DropTwo(trace[i].value)))

CodeFetches == TraceIndices("get_code")

\* C12: proxy resolution goes one hop: storage is read only at the requested
\* address; besides the initial fetch there is at most one get_code, for the
\* resolved implementation, and it is the last RPC call of the analysis, so
\* the slots of an implementation that is itself a proxy are never read and
\* no second implementation is fetched
OneHop ==
    /\ \A i \in StorageReads : trace[i].address = args.address
    /\ Cardinality(CodeFetches) <= 2
    /\ \A i \in CodeFetches :
           i > 1 => /\ frame.impl_address # None
                    /\ trace[i].address = frame.impl_address[1]
                    /\ i = Len(trace)
                    /\ \A j \in StorageReads : j < i

\* C12: the call returned for a proxy whose implementation is a proxy too
ProxyBehindProxy ==
    /\ HasReturned
    /\ Cardinality(CodeFetches) = 2
    /\ StorageReads # {}
    /\ HasProxyFinding(frame.impl_detected)
    /\ LastResult.implementation # None

(***************************************************************************)
(* C13                                                                     *)
(***************************************************************************)
\* the two categories compute_score sets from its heuristics
HeuristicCategories == {<<"suspicious_selector">>, <<"tiny_bytecode">>}

\* category_scores is the capped sum of the findings' points per detector
CappedSums(category_scores, findings) ==
    \A c \in DOMAIN category_scores :
        /\ c \notin HeuristicCategories =>
               category_scores[c] =
                   Min(IF c \in DOMAIN CATEGORY_CAPS THEN CATEGORY_CAPS[c] ELSE 100,
                       PointsIn(findings, c))
        /\ c \in DOMAIN CATEGORY_CAPS => category_scores[c] <= CATEGORY_CAPS[c]

\* C13: every finding-derived category of a compute_score result is
\* min(cap, sum of the points of the findings of that detector), with the
\* cap of CATEGORY_CAPS or 100 for an unlisted category; no listed category
\* exceeds its cap, and in a returned result no impl_<c> entry exceeds
\* CATEGORY_CAPS[c]
CategoryCaps ==
    /\ unit.fn = "compute_score" =>
           CappedSums(unit.output.category_scores, unit.input.findings)
    /\ frame.score_result # None =>
           CappedSums(ProxyPass.category_scores, frame.findings)
    /\ HasReturned =>
           \A c \in DOMAIN CATEGORY_CAPS :
               /\ c \in DOMAIN LastResult.category_scores =>
                      LastResult.category_scores[c] <= CATEGORY_CAPS[c]
               /\ ImplName(c) \in DOMAIN LastResult.category_scores =>
                      LastResult.category_scores[ImplName(c)] <= CATEGORY_CAPS[c]

\* C13: compute_score was given findings whose points exceed the cap of a
\* listed and of an unlisted category
CapsClamp ==
    /\ unit.fn = "compute_score"
    /\ PointsIn(unit.input.findings, <<"selfdestruct">>) > 30
    /\ unit.output.category_scores[<<"selfdestruct">>] = 30
    /\ PointsIn(unit.input.findings, <<"custom">>) > 100
    /\ unit.output.category_scores[<<"custom">>] = 100

(***************************************************************************)
(* C14                                                                     *)
(***************************************************************************)
\* the score is the category sum, clamped at 100
SumBoundsScore(result) ==
    LET sum == SumValues(result.category_scores)
    IN  /\ sum >= result.score
        /\ sum <= 100 => result.score = sum
        /\ result.score # sum => result.score = 100

\* C14: in every ScoreResult and AnalysisResult, merged or not, the sum of
\* the category_scores values is at least the score, equals it whenever the
\* sum is at most 100, and differs from it only when the score is clamped
\* at 100
ScoreIsClampedSum ==
    /\ unit.fn = "compute_score" => SumBoundsScore(unit.output)
    /\ frame.score_result # None => SumBoundsScore(ProxyPass)
    /\ HasReturned => SumBoundsScore(LastResult)

\* C14: a merged result whose categories sum to the score below 100, after
\* a proxy-level pass on the same contract
MergedSumEqualsScore ==
    /\ HasReturned
    /\ LastResult.implementation # None
    /\ LastResult.score < 100
    /\ LastResult.score > ProxyPass.score
    /\ SumValues(LastResult.category_scores) = LastResult.score

(***************************************************************************)
(* C15                                                                     *)
(***************************************************************************)
\* the level bands as the claim lists them
LevelBand(score) ==
    CASE score <= 15 -> "safe"
      [] score \in 16..35 -> "low"
      [] score \in 36..55 -> "medium"
      [] score \in 56..75 -> "high"
      [] score \in 76..100 -> "critical"

\* C15: the level of every result is the band of its final score: safe up
\* to 15, low 16..35, medium 36..55, high 56..75, critical 76..100; the
\* level of a merged result is the band of the merged score
LevelIsBandOfScore ==
    /\ unit.fn = "_score_to_level" => unit.output = LevelBand(unit.input)
    /\ unit.fn = "compute_score" => unit.output.level = LevelBand(unit.output.score)
    /\ frame.score_result # None => ProxyPass.level = LevelBand(ProxyPass.score)
    /\ HasReturned => LastResult.level = LevelBand(LastResult.score)

\* C15: _score_to_level was called at the upper edge of the high band
BandEdgeCall ==
    /\ unit.fn = "_score_to_level"
    /\ unit.input = 75
    /\ unit.output = "high"

(***************************************************************************)
(* C16                                                                     *)
(***************************************************************************)
\* the invocations of get_code and get_storage_at a step makes
RpcInvocations ==
    (IF Len(trace') = Len(trace) + 1
        /\ trace'[Len(trace')].fn \in {"get_code", "get_storage_at"}
     THEN {trace'[Len(trace')]} ELSE {})
    \cup (IF pc' \in {"scan", "unit"} /\ unit'.fn = "get_code"
          THEN {unit'.output} ELSE {})

\* the lru_cache key of an invocation
KeyOf(e) ==
    IF e.fn = "get_code" THEN <<e.address, config.base_rpc_url>>
    ELSE <<e.address, HexText(e.slot), config.base_rpc_url>>

\* what the function of the invocation returned since the last clear_cache()
HistoryOf(e) == IF e.fn = "get_code" THEN history.code ELSE history.storage

\* the maxsize most recently used entries
Recent(h) == SubSeq(h, IF Len(h) > maxsize THEN Len(h) - maxsize + 1 ELSE 1, Len(h))

\* the invocation was served from memory with the value returned before
ServedFrom(h, e) ==
    /\ ~e.sent
    /\ ~e.failed
    /\ e.value = CacheGet(h, KeyOf(e))

\* C16 as stated: once get_code or get_storage_at has returned a value for
\* a key, every further call with that key returns the same value without
\* a request until clear_cache() is called; a key that returned no value
\* since the last clear_cache() sends a request
CacheServesUntilCleared ==
    [][\A e \in RpcInvocations :
          IF KeyOf(e) \in CacheKeys(HistoryOf(e))
          THEN ServedFrom(HistoryOf(e), e)
          ELSE e.sent]_vars

\* C16 amended: a call is served without a request, with the value returned
\* before, exactly when its key is among the 256 most recently used keys
\* that returned a value since the last clear_cache(); any other call sends
\* a request
CacheServesRecentKeys ==
    [][\A e \in RpcInvocations :
          IF KeyOf(e) \in CacheKeys(Recent(HistoryOf(e)))
          THEN ServedFrom(HistoryOf(e), e)
          ELSE e.sent]_vars

\* C16: get_code sent a request for the first address again after 256 other
\* addresses had been fetched and no cache was cleared
EvictedKeyFetchedAgain ==
    /\ pc = "unit"
    /\ unit.fn = "get_code"
    /\ unit.input > maxsize + 1
    /\ unit.output.sent
    /\ Len(history.code) > maxsize

(***************************************************************************)
(* C17                                                                     *)
(***************************************************************************)
\* the operand size the EVM gives the opcode: n for PUSHn, else 0
NominalSize(opcode) == IF opcode \in 96..127 THEN opcode - 95 ELSE 0

\* opcode and operand of each instruction, the operand zero-padded to its
\* nominal size, one after the other
RECURSIVE Reassembled(_)
Reassembled(instructions) ==
    IF instructions = <<>> THEN <<>>
    ELSE LET ins == Head(instructions)
             missing == NominalSize(ins.opcode) - Len(ins.operand)
         IN  <<ins.opcode>> \o ins.operand \o [k \in 1..missing |-> 0]
                 \o Reassembled(Tail(instructions))

Tiles(raw, instructions) ==
    LET n == Len(instructions)
        whole == Reassembled(instructions)
    IN  /\ raw = <<>> <=> instructions = <<>>
        /\ n > 0 => instructions[1].offset = 0
        /\ \A k \in 1..(n - 1) :
               /\ instructions[k + 1].offset =
                      instructions[k].offset + 1 + NominalSize(instructions[k].opcode)
               /\ Len(instructions[k].operand) = NominalSize(instructions[k].opcode)
        /\ \A k \in 1..n : Len(instructions[k].operand) <= NominalSize(instructions[k].opcode)
        /\ Len(whole) >= Len(raw)
        /\ SubSeq(whole, 1, Len(raw)) = raw
        /\ \A k \in (Len(raw) + 1)..Len(whole) : whole[k] = 0
        /\ n > 0 => Len(whole) - Len(raw) =
                        NominalSize(instructions[n].opcode) - Len(instructions[n].operand)

\* C17: the instructions disassemble emits for a byte string tile it in
\* order: the first at offset 0, each next one at the previous offset plus
\* 1 plus the nominal operand size of the previous opcode, and opcodes and
\* operands concatenated, a truncated trailing PUSH operand zero-padded,
\* give the byte string followed by exactly that padding
DisassemblyTiles ==
    unit.fn = "disassemble" => Tiles(unit.input, unit.output)

\* C17: a byte string that ends inside the operand of a PUSH2 that follows
\* another instruction
TruncatedTrailingPush ==
    /\ unit.fn = "disassemble"
    /\ Len(unit.output) = 2
    /\ unit.output[2].opcode = 97
    /\ Len(unit.output[2].operand) = 1
    /\ Len(unit.input) = 3

(***************************************************************************)
(* C18                                                                     *)
(***************************************************************************)
\* C18: for every byte 0..255 lookup returns a non-empty mnemonic and the
\* operand size n for PUSHn (0x60..0x7F, n = byte - 0x5F) and 0 for every
\* other byte, PUSH0 and the undefined bytes (named UNKNOWN_XX) included
LookupIsTotal ==
    unit.fn = "lookup" =>
        /\ unit.input \in 0..255
        /\ unit.output.name # <<>>
        /\ \A k \in 1..Len(unit.output.name) : unit.output.name[k] # ""
        /\ unit.output.operand_size =
               IF unit.input \in 96..127 THEN unit.input - 95 ELSE 0
        /\ unit.input = 95 => unit.output.name = <<"PUSH0">>
        /\ unit.output.name[1] = "UNKNOWN_" =>
               unit.output.name = <<"UNKNOWN_", HexUpper[(unit.input \div 16) + 1],
                                    HexUpper[(unit.input % 16) + 1]>>

\* C18: lookup was called with the undefined byte 0x0C
UndefinedByteLookedUp ==
    /\ unit.fn = "lookup"
    /\ unit.input = 12
    /\ unit.output = [name |-> <<"UNKNOWN_", "0", "C">>, operand_size |-> 0]

(***************************************************************************)
(* C19                                                                     *)
(***************************************************************************)
\* ^0x[0-9a-fA-F]{40}$
HexDigits ==
    {"0", "1", "2", "3", "4", "5", "6", "7", "8", "9",
     "a", "b", "c", "d", "e", "f", "A", "B", "C", "D", "E", "F"}

MatchesPattern(address) ==
    /\ Len(address) = 42
    /\ SubSeq(address, 1, 2) = <<"0", "x">>
    /\ \A i \in 3..42 : address[i] \in HexDigits

\* a request was made; the address it carries, as sent
Requested == http.request.method # ""

Submitted ==
    IF Strip(http.request.query) # <<>> \/ http.request.json = None
    THEN http.request.query ELSE http.request.json[1]

\* the last request was turned away with the status and sent nothing
TurnedAway(status) ==
    /\ http.status = status
    /\ pc = "idle"
    /\ trace = <<>>
    /\ ~HasReturned /\ ~HasRaised

\* C19 as stated: analyze_contract is called only with an address matching
\* ^0x[0-9a-fA-F]{40}$, and a request whose address is missing or does not
\* match gets status 422 and causes no RPC or explorer request
MismatchGets422 ==
    Requested =>
        /\ http.status = 0 => MatchesPattern(args.address)
        /\ ~MatchesPattern(Submitted) => TurnedAway(422)

\* C19 amended: analyze_contract is called only with an address matching
\* the pattern, namely the submitted address with surrounding white space
\* stripped; a request the payment gate does not verify gets 402, a request
\* that passes the gate (or meets none) and whose stripped address is empty
\* or does not match gets 422, and neither causes an RPC or explorer request
RouteValidatesAddress ==
    Requested =>
        /\ http.status = 0 =>
               /\ MatchesPattern(args.address)
               /\ args.address = Strip(Submitted)
        /\ http.request.payment = "payment-error" => TurnedAway(402)
        /\ http.request.payment # "payment-error" /\ ~MatchesPattern(Strip(Submitted)) =>
               TurnedAway(422)
        /\ http.status \in {0, 402, 422}

\* C19: an address with one hex digit too many was answered with 422 after
\* an earlier request had been analysed
OverlongAddressRejected ==
    /\ Requested
    /\ Len(Submitted) = 43
    /\ http.status = 422
    /\ ncalls = 2
    /\ code_cache # EmptyCache

(***************************************************************************)
(* C20                                                                     *)
(***************************************************************************)
\* detect_deployer_reputation has returned and the call is still running
ReputationDone == pc \in {"score", "resolve", "impl", "merge"}

ReputationFindings ==
    SelectSeq(frame.findings, LAMBDA f : f.detector = <<"deployer_reputation">>)

ExplorerCalls ==
    {i \in 1..Len(trace) :
        trace[i].fn \in {"get_contract_creator", "get_first_tx_timestamp", "get_tx_count"}}

\* the value the lookup gave in this call: None when it was not made
Looked(fn) ==
    IF TraceIndices(fn) = {} THEN None
    ELSE trace[CHOOSE i \in TraceIndices(fn) : TRUE].value

FailedExplorerCalls == {i \in ExplorerCalls : trace[i].failed}

\* what the lookup gives when its request succeeds: the explorer's fact when
\* the request of this call failed or was not made, else what it returned
WhenSucceeding(fn, fact) ==
    IF TraceIndices(fn) \cap FailedExplorerCalls # {} \/ TraceIndices(fn) = {}
    THEN fact ELSE Looked(fn)

\* the number of deployer_reputation findings with every explorer request
\* of the call succeeding
FindingsWhenSucceeding ==
    LET creator == WhenSucceeding("get_contract_creator", chain.explorer.creator)
        first_ts == WhenSucceeding("get_first_tx_timestamp", chain.explorer.first_ts)
        tx_count == WhenSucceeding("get_tx_count", chain.explorer.tx_count)
    IN  IF creator = None THEN 1
        ELSE (IF first_ts # None /\ now - first_ts[1] < 7 * 86400 THEN 1 ELSE 0)
                 + (IF tx_count # None /\ tx_count[1] < 5 THEN 1 ELSE 0)

OtherFindings ==
    SelectSeq(frame.findings, LAMBDA f : f.detector # <<"deployer_reputation">>)

\* C21: when an explorer request of the call failed, the call still returns,
\* it has no more deployer_reputation findings than with the request
\* succeeding, and the other findings and the other category scores are
\* those of the bytecode alone
ExplorerFailureSwallowed ==
    FailedExplorerCalls # {} =>
        /\ pc = "idle" => HasReturned
        /\ ReputationDone =>
               /\ Len(ReputationFindings) <= FindingsWhenSucceeding
               /\ OtherFindings = run_all_detectors(disassemble(frame.bytecode_hex))
        /\ frame.score_result # None =>
               LET alone == compute_score(OtherFindings, disassemble(frame.bytecode_hex),
                                          frame.bytecode_hex).category_scores
                   scores == ProxyPass.category_scores
               IN  /\ (DOMAIN scores) \ {<<"deployer_reputation">>} = DOMAIN alone
                   /\ \A c \in DOMAIN alone : scores[c] = alone[c]

(***************************************************************************)
(* C22, C23                                                                *)
(***************************************************************************)
\* the instruction list has a PUSH4 whose whole operand is the selector of
\* transfer or of transferFrom
TransferPushed(ins) ==
    \E k \in 1..Len(ins) :
        /\ ins[k].opcode = 99
        /\ ins[k].operand \in {<<169, 5, 156, 187>>, <<35, 184, 114, 221>>}

\* a comparison at i (counted from 0), JUMPI at i + 1 and REVERT at some j
\* with i + 2 <= j <= i + last
ConditionalRevert(ins, i, last) ==
    /\ i + 1 < Len(ins)
    /\ ins[i + 1].opcode \in {16, 17, 18, 19, 20}
    /\ ins[i + 2].opcode = 87
    /\ \E j \in (i + 2)..(i + last) : j < Len(ins) /\ ins[j + 1].opcode = 253

ConditionalReverts(ins, last) ==
    {i \in 0..(Len(ins) - 1) : ConditionalRevert(ins, i, last)}

\* C22: detect_honeypot_patterns emits one finding (high, 25 points, offset
\* of the comparison) when a whole PUSH4 operand is the selector of transfer
\* or transferFrom and some comparison at i has JUMPI at i + 1 and REVERT at
\* j, i + 2 <= j <= i + 5, for the first such i; otherwise it emits nothing
HoneypotFindingIff ==
    unit.fn = "detect_honeypot_patterns" =>
        LET ins == unit.input
            hits == ConditionalReverts(ins, 5)
        IN  IF TransferPushed(ins) /\ hits # {}
            THEN /\ Len(unit.output) = 1
                 /\ unit.output[1].detector = <<"honeypot">>
                 /\ unit.output[1].severity = "high"
                 /\ unit.output[1].points = 25
                 /\ \A i \in hits : unit.output[1].offset <= ins[i + 1].offset
                 /\ \E i \in hits : unit.output[1].offset = ins[i + 1].offset
            ELSE unit.output = <<>>

\* C22: the finding refers to the second comparison of the code, the first
\* one having no JUMPI behind it
LaterComparisonReported ==
    /\ unit.fn = "detect_honeypot_patterns"
    /\ Len(unit.output) = 1
    /\ \E k \in 1..Len(unit.input) :
           /\ unit.input[k].opcode = 20
           /\ unit.input[k].offset < unit.output[1].offset

\* the 0-based index of the comparison the finding refers to
Reported == CHOOSE i \in 0..(Len(unit.input) - 1) :
                unit.input[i + 1].offset = unit.output[1].offset

\* C23 as stated: a finding is emitted only when a REVERT is one of the 3
\* instructions that follow the JUMPI
RevertWithinThree ==
    unit.fn = "detect_honeypot_patterns" /\ unit.output # <<>> =>
        \E j \in (Reported + 2)..(Reported + 4) :
            j < Len(unit.input) /\ unit.input[j + 1].opcode = 253

\* C23 amended: the look-ahead covers the 4 instructions that follow the
\* JUMPI: a finding is emitted only when a REVERT is one of them, and with a
\* transfer selector pushed a REVERT that is the 4th of them is enough
RevertWithinFour ==
    unit.fn = "detect_honeypot_patterns" =>
        /\ unit.output # <<>> =>
               /\ unit.input[Reported + 2].opcode = 87
               /\ \E j \in (Reported + 2)..(Reported + 5) :
                      j < Len(unit.input) /\ unit.input[j + 1].opcode = 253
        /\ \A i \in 0..(Len(unit.input) - 6) :
               (/\ TransferPushed(unit.input)
                /\ unit.input[i + 1].opcode \in {16, 17, 18, 19, 20}
                /\ unit.input[i + 2].opcode = 87
                /\ unit.input[i + 6].opcode = 253) => unit.output # <<>>

\* C23: the only REVERT of the code is the 4th instruction behind the JUMPI
\* and the finding is emitted; in another call it is the 5th and nothing is
\* emitted
FourthInstructionReverts ==
    /\ unit.fn = "detect_honeypot_patterns"
    /\ unit.output # <<>>
    /\ Cardinality(OpcodeIndices(unit.input, 253)) = 1
    /\ Cardinality(OpcodeIndices(unit.input, 87)) = 1
    /\ \E k \in 1..(Len(unit.input) - 4) :
           unit.input[k].opcode = 87 /\ unit.input[k + 4].opcode = 253

(***************************************************************************)
(* C24                                                                     *)
(***************************************************************************)
\* the CALLs at an index i (counted from 0) with an SSTORE at some index j,
\* i < j <= i + 20
CallsBeforeStore(ins) ==
    {i \in 0..(Len(ins) - 1) :
        /\ ins[i + 1].opcode = 241
        /\ \E j \in (i + 1)..(i + 20) : j < Len(ins) /\ ins[j + 1].opcode = 85}

\* C24: detect_reentrancy_risk emits at most one finding, and one exactly
\* when some CALL at index i has an SSTORE at an index j, i < j <= i + 20,
\* counted in instructions; its offset is the byte offset of the first such
\* CALL
ReentrancyFindingIff ==
    unit.fn = "detect_reentrancy_risk" =>
        LET hits == CallsBeforeStore(unit.input)
        IN  /\ Len(unit.output) <= 1
            /\ unit.output # <<>> <=> hits # {}
            /\ unit.output # <<>> =>
                   /\ unit.output[1].detector = <<"reentrancy">>
                   /\ \A i \in hits : unit.output[1].offset <= unit.input[i + 1].offset
                   /\ \E i \in hits : unit.output[1].offset = unit.input[i + 1].offset

\* C24: the CALL reported is the second CALL of the code, the first one
\* being 21 instructions before the SSTORE, and the SSTORE lies more than
\* 600 bytes behind the reported CALL
SecondCallReported ==
    /\ unit.fn = "detect_reentrancy_risk"
    /\ unit.output # <<>>
    /\ unit.input[1].opcode = 241
    /\ unit.output[1].offset = 1
    /\ unit.input[22].opcode = 85
    /\ unit.input[22].offset > 600

(***************************************************************************)
(* C25                                                                     *)
(***************************************************************************)
FindingsOf(findings, detector) == SelectSeq(findings, LAMBDA f : f.detector = detector)

\* some PUSH32 with its whole 32-byte operand equal to a slot constant
SlotPushed(ins) ==
    \E k \in 1..Len(ins) :
        /\ ins[k].opcode = 127
        /\ Len(ins[k].operand) = 32
        /\ ins[k].operand \in {EIP_1967_IMPL_SLOT, EIP_1967_ADMIN_SLOT, EIP_1822_SLOT,
                               OZ_IMPL_SLOT, OZ_ADMIN_SLOT}

\* the findings of one pass of the detectors over the instructions
DelegatecallAsSpecified(ins, findings) ==
    LET found == FindingsOf(findings, <<"delegatecall">>)
        proxy == FindingsOf(findings, <<"proxy">>)
        at == {ins[k].offset : k \in {n \in 1..Len(ins) : ins[n].opcode = 244}}
    IN  /\ Len(found) <= 1
        /\ found # <<>> <=> at # {}
        /\ proxy # <<>> <=> SlotPushed(ins)
        /\ found # <<>> =>
               /\ found[1].offset \in at
               /\ \A o \in at : found[1].offset <= o
               /\ IF proxy # <<>>
                  THEN found[1].severity = "info" /\ found[1].points = 10
                  ELSE found[1].severity = "high" /\ found[1].points = 15

\* C25: a detector pass has at most one delegatecall finding, at the first
\* DELEGATECALL; it is info with 10 points exactly when the pass has a proxy
\* finding, which is when a whole PUSH32 operand equals a slot constant, and
\* high with 15 points otherwise
DelegatecallDowngrade ==
    /\ unit.fn = "run_all_detectors" => DelegatecallAsSpecified(unit.input, unit.output)
    /\ DelegatecallAsSpecified(disassemble(frame.bytecode_hex), frame.findings)

\* C25: two DELEGATECALLs behind a JUMPDEST and before the PUSH32 of a slot:
\* one info finding at the first of them
DowngradedAtFirst ==
    /\ unit.fn = "run_all_detectors"
    /\ Cardinality(OpcodeIndices(unit.input, 244)) = 2
    /\ unit.input[1].opcode = 91
    /\ unit.input[Len(unit.input)].opcode = 127
    /\ FindingsOf(unit.output, <<"proxy">>) # <<>>
    /\ FindingsOf(unit.output, <<"delegatecall">>)[1].points = 10
    /\ FindingsOf(unit.output, <<"delegatecall">>)[1].offset = 1

(***************************************************************************)
(* C26                                                                     *)
(***************************************************************************)
\* the number of bytes the hex text decodes to
DecodedLength(bytecode_hex) ==
    Len(BytesFromHex(IF StartsWith0x(bytecode_hex) THEN DropTwo(bytecode_hex)
                     ELSE bytecode_hex))

TinyAsSpecified(bytecode_hex, category_scores) ==
    LET length == DecodedLength(bytecode_hex)
    IN  IF length > 0 /\ length < 200 /\ <<"proxy">> \notin DOMAIN category_scores
        THEN /\ <<"tiny_bytecode">> \in DOMAIN category_scores
             /\ category_scores[<<"tiny_bytecode">>] = 10
        ELSE <<"tiny_bytecode">> \notin DOMAIN category_scores

\* C26: compute_score sets category tiny_bytecode to 10 exactly when the
\* bytecode decodes to more than 0 and fewer than 200 bytes and no proxy
\* category is present; otherwise the key is absent
TinyBytecodeIff ==
    /\ unit.fn = "compute_score" =>
           TinyAsSpecified(unit.input.bytecode, unit.output.category_scores)
    /\ frame.score_result # None =>
           TinyAsSpecified(frame.bytecode_hex, ProxyPass.category_scores)

\* C26: a bytecode of 199 bytes scored with tiny_bytecode 10 next to another
\* category
TinyAtUpperEdge ==
    /\ unit.fn = "compute_score"
    /\ DecodedLength(unit.input.bytecode) = 199
    /\ <<"selfdestruct">> \in DOMAIN unit.output.category_scores
    /\ unit.output.category_scores[<<"tiny_bytecode">>] = 10

(***************************************************************************)
(* C27                                                                     *)
(***************************************************************************)
\* the list in the order the permutation p of its indices gives
Reordered(findings, p) == [k \in 1..Len(findings) |-> findings[p[k]]]

\* C27: whatever the order of the findings (all with non-negative points),
\* compute_score returns the same score, level and category_scores for the
\* same instructions and bytecode
OrderIndependent ==
    unit.fn = "compute_score" =>
        LET findings == unit.input.findings
            bytecode == unit.input.bytecode
        IN  /\ \A k \in 1..Len(findings) : findings[k].points >= 0
            /\ \A p \in Permutations(1..Len(findings)) :
                   LET other == compute_score(Reordered(findings, p),
                                              disassemble(bytecode), bytecode)
                   IN  /\ other.score = unit.output.score
                       /\ other.level = unit.output.level
                       /\ other.category_scores = unit.output.category_scores

\* C27: two findings of an unlisted category with another finding between
\* them, the larger one first
CategoryInterleaved ==
    /\ unit.fn = "compute_score"
    /\ Len(unit.input.findings) = 3
    /\ unit.input.findings[1] = TestFinding(<<"custom">>, 60)
    /\ unit.input.findings[2].detector = <<"selfdestruct">>
    /\ unit.input.findings[3] = TestFinding(<<"custom">>, 45)
    /\ unit.output.category_scores[<<"custom">>] = 100

(***************************************************************************)
(* C28                                                                     *)
(***************************************************************************)
\* the invocations of the call that sent an HTTP request
Outbound == {i \in 1..Len(trace) : trace[i].sent}

\* C28: one analyze_contract call sends at most 8 requests: at most 1
\* get_code for the requested address, 3 explorer requests, 3
\* get_storage_at and 1 get_code for the implementation, and it sends no
\* request twice, a failed one included
OutboundBudget ==
    /\ Cardinality(Outbound) <= 8
    /\ Cardinality({i \in Outbound \cap CodeFetches : i = 1}) <= 1
    /\ \A i \in Outbound \cap CodeFetches : i = 1 <=> trace[i].address = args.address
    /\ Cardinality({i \in Outbound \cap CodeFetches : i > 1}) <= 1
    /\ Cardinality(Outbound \cap ExplorerCalls) <= 3
    /\ Cardinality(Outbound \cap StorageReads) <= 3
    /\ \A i, j \in 1..Len(trace) :
           i < j => <<trace[i].fn, trace[i].address, trace[i].slot>>
                        # <<trace[j].fn, trace[j].address, trace[j].slot>>

\* C28: a call that returned after 8 requests, one of which failed
EightRequests ==
    /\ HasReturned
    /\ Cardinality(Outbound) = 8
    /\ \E i \in Outbound : trace[i].failed

(***************************************************************************)
(* C29                                                                     *)
(***************************************************************************)
\* the settlement of the payment of the last request was attempted
SettlementAttempted == http.settlement \in {"settled", "failed"}

\* C29: with the payment middleware enabled, the settlement is attempted
\* only for a request to /analyze whose payment the gate verified and whose
\* response has status 200; a request that ends in 402, 422 or 502 is never
\* settled, and a failed settlement leaves the response as the route
\* produced it
SettledOnlyAfterPaid200 ==
    /\ SettlementAttempted =>
           /\ config.enable_x402
           /\ http.request.payment = "payment-verified"
           /\ http.status = 0
           /\ http.response = 200
           /\ HasReturned
    /\ http.response \in {402, 422, 500, 502} => ~SettlementAttempted
    /\ http.response # 0 =>
           http.response = IF http.status # 0 THEN http.status ELSE RouteStatus(outcome)

\* C29: the settlement of a verified payment failed after the analysis had
\* returned, and the response is still the 200 with the result
SettlementFailedAfter200 ==
    /\ config.enable_x402
    /\ http.settlement = "failed"
    /\ http.response = 200
    /\ HasReturned
    /\ outcome.result # None

(***************************************************************************)
(* C30                                                                     *)
(***************************************************************************)
\* the invocation of an explorer lookup a step makes
ExplorerInvocations ==
    IF Len(trace') = Len(trace) + 1
       /\ trace'[Len(trace')].fn
              \in {"get_contract_creator", "get_first_tx_timestamp", "get_tx_count"}
    THEN {trace'[Len(trace')]} ELSE {}

\* the lru_cache key of an explorer invocation
ExplorerKey(e) == <<e.address, args.basescan_api_key>>

\* what the lookup returned since the last clear_reputation_cache()
ExplorerHistory(e) ==
    IF e.fn = "get_contract_creator" THEN history.creator
    ELSE IF e.fn = "get_first_tx_timestamp" THEN history.first_tx
    ELSE history.tx_count

\* the cache of the RPC function after the step
RpcCacheAfter(e) == IF e.fn = "get_code" THEN code_cache' ELSE storage_cache'

\* C30: an explorer lookup whose key returned an answer, None included,
\* since the last clear_reputation_cache() and is still among the 256 most
\* recently used keys returns that answer without a request, whether the
\* None came from missing data or from a failed request; any other lookup
\* sends a request; a get_code or get_storage_at call that raised RPCError
\* leaves no cache entry for its key, and a call whose key has no entry
\* sends a request
NegativeAnswersCached ==
    [][/\ \A e \in ExplorerInvocations :
              LET h == Recent(ExplorerHistory(e))
                  key == ExplorerKey(e)
              IN  IF key \in CacheKeys(h)
                  THEN /\ ~e.sent
                       /\ ~e.failed
                       /\ e.value = CacheGet(h, key)
                       /\ CacheGet(h, key) = None => e.value = None
                  ELSE e.sent
       /\ \A e \in RpcInvocations :
              /\ e.error = "RPCError" =>
                     /\ e.sent
                     /\ KeyOf(e) \notin CacheKeys(RpcCacheAfter(e))
              /\ KeyOf(e) \notin CacheKeys(RpcCacheAfter(e)) => e.sent]_vars

\* C30: the explorer knows the creator of the contract, the lookup of an
\* earlier call failed and returned None, and the lookup of this call
\* returned None again without a request
FailedLookupServedFromCache ==
    /\ chain.explorer.creator # None
    /\ ncalls = 2
    /\ Lower(args.address) = AccountLower
    /\ \E i \in ExplorerCalls :
           /\ trace[i].fn = "get_contract_creator"
           /\ ~trace[i].sent
           /\ trace[i].value = None
    /\ CacheGet(history.creator, <<args.address, args.basescan_api_key>>) = None

====
